---- MODULE Spec2Model ----
(***************************************************************************)
(* A state-machine model of the neptune garbage collector                  *)
(* (src/neptune/src/gc2.rs, pages.rs, gc.rs, c_interface.rs).              *)
(*                                                                         *)
(* The heap is a small set of pool cells (pages x cells) and big objects.  *)
(* Every managed object is a generic datatype with one pointer field, so   *)
(* scan_obj takes its last branch (the field loop).  A collection is two    *)
(* steps: collect up to the sweep decision (premark, mark, finalizers,     *)
(* cache sync), then the sweep.  Mutator threads only run while no         *)
(* collection is in progress (the world is stopped during a cycle).        *)
(***************************************************************************)
EXTENDS Integers, Sequences, FiniteSets, TLC

\* ------------------------------------------------------------------ bounds
NThreads == 2          \* mutator (Julia) threads, tids 0..NThreads-1
NPages == 2            \* pages of region 0 the model lets the page manager hand out
CellsPerPage == 2      \* n_obj of a page of the modelled size class
NBig == 2              \* big-object allocations that can exist at a time
MaxCollects == 3       \* collections of a run
MaxAllocsGen == 2      \* allocations of a run that explores generations
MaxCollectsGen == 4    \* collections of a run that explores generations
MaxAllocs == 3         \* pool/big allocations of a run
MaxStores == 1         \* pointer stores of a run
MaxQueueRoots == 2     \* stores and barrier calls of a run that opens the barrier entry point
MaxStoresBind == 2     \* pointer stores of a run that stores into bindings too
MaxDrops == 1          \* roots dropped in a run
MaxFin == 2            \* finalizer registrations of a run
MaxFinRes == 1         \* finalizer registrations of a run that also stores pointers
MaxCollectsStat == 6   \* collections of a run that explores the interval statistics
MaxAllocsStat == 1     \* allocations of a run that explores the interval statistics
QuietAfter == 4        \* collections after which the mutator of a quiet run stops
MaxCollectsFull == 6   \* collections of a quiet run
NMark == 43            \* objects of the heap a stepwise mark phase walks
NWorkers == 2          \* worker threads of the pool in a stepwise mark phase

\* ------------------------------------------------------- program constants
GC_CLEAN == 0
GC_MARKED == 1
GC_OLD == 2
GC_OLD_MARKED == GC_OLD + GC_MARKED
MAX_MARK_DEPTH == 40
PROMOTE_AGE == 1
PAGE_SZ == 16384
DEFAULT_REGION_PG_COUNT == 131072      \* 4 * 8 * 4096
MIN_REGION_PG_COUNT == 64
JL_SMALL_BYTE_ALIGNMENT == 16
TAG_BITS == 2
DEFAULT_COLLECT_INTERVAL == 5600 * 1024 * 8
MAX_COLLECT_INTERVAL == 1250000000
SIZE_OF_PTR == 8

NULL == 0
Threads == 0 .. (NThreads - 1)
Pages == 0 .. (NPages - 1)
NPool == NPages * CellsPerPage
PoolCells == 1 .. NPool
BigVals == (NPool + 1) .. (NPool + NBig)
Obj == PoolCells \cup BigVals

\* the worker of the scoped thread pool (NEPTUNE_THREADS absent => 1 worker);
\* marking agents are the mutator threads (when they coordinate a cycle) and
\* the worker
Worker == NThreads
ThreadCount == Cardinality({Worker})

\* cell i (0-based) of page p, and back
CellAt(p, i) == p * CellsPerPage + i + 1
PageOf(c) == (c - 1) \div CellsPerPage
IndexOf(c) == (c - 1) % CellsPerPage

\* the type descriptor of the modelled objects: a 16-byte aligned address
ObjType == JL_SMALL_BYTE_ALIGNMENT

\* ------------------------------------------------------ tagged header word
Pow2(n) == IF n = 0 THEN 1 ELSE IF n = 1 THEN 2 ELSE IF n = 2 THEN 4 ELSE 2 * 2 * 2 * 2
tag(h) == h % Pow2(TAG_BITS)
set_tag(h, c) == h - (h % Pow2(TAG_BITS)) + c
marked(h) == h % 2 = 1
old(h) == (h \div 2) % 2 = 1
type_tag(h) == h - (h % 16)
nontype_tag(h) == h % 16

\* value pointers kept in the finalizer lists: 16-byte aligned, low bit = tag
PtrOf(o) == o * JL_SMALL_BYTE_ALIGNMENT
ObjOf(p) == p \div JL_SMALL_BYTE_ALIGNMENT
clear_tag(p, mask) == p - (p % (mask + 1))
\* a native (C) finalizer: a code address, no managed object
CFun == PtrOf(NPool + NBig + 1)

\* the type descriptor of weak references, and the host's nothing value (a
\* permanent object outside the collected heap)
jl_weakref_type == 2 * JL_SMALL_BYTE_ALIGNMENT
jl_nothing == NPool + NBig + 2

\* ----------------------------------------------------------- size classes
SIZE_OF_JLTAGGEDVALUE == 8
SIZE_OF_BIGVAL == 56
JL_CACHE_BYTE_ALIGNMENT == 64
GC_N_POOLS == 41
GC_SIZE_CLASSES ==
  << 8,
     16, 32, 48, 64, 80, 96, 112, 128, 144, 160, 176, 192, 208, 224, 240, 256,
     272, 288, 304, 336, 368, 400, 448, 496, 544, 576, 624, 672, 736, 816,
     896, 1008, 1088, 1168, 1248, 1360, 1488, 1632, 1808, 2032 >>
GC_MAX_SZCLASS == 2032 - 8

\* Option::None of find_pool
None == 0 - 1

\* Gc2::find_pool: the index of the least size class that holds `size` bytes
\* (binary_search returns the index of the match or the insertion point)
find_pool(size) ==
  IF size > GC_MAX_SZCLASS THEN None
  ELSE LET i == Cardinality({k \in 1 .. GC_N_POOLS : GC_SIZE_CLASSES[k] < size})
       IN IF i >= GC_N_POOLS THEN None ELSE i

\* llt_align(x, sz) for a power of two sz
llt_align(x, sz) == ((x + sz - 1) \div sz) * sz

\* payload sizes the host asks for: the one-word objects of the heap model and
\* the sizes around the pool/big boundary
ObjSize == 8
Sizes == {0, ObjSize, GC_MAX_SZCLASS, GC_MAX_SZCLASS + 1,
          GC_MAX_SZCLASS + SIZE_OF_JLTAGGEDVALUE,
          GC_MAX_SZCLASS + SIZE_OF_JLTAGGEDVALUE + 1,
          GC_MAX_SZCLASS + 3 * SIZE_OF_JLTAGGEDVALUE}
\* the pools these sizes reach (ThreadHeap.pools has GC_N_POOLS of them; the
\* others stay empty)
Pools == {find_pool(z) : z \in {x \in Sizes : x <= GC_MAX_SZCLASS}}

\* ------------------------------------------------------------------- state
VARIABLES
  pc,            \* "idle", "synced" (collect has marked and is about to sweep) or "panic";
                 \* taken step by step, collect is at "premark", "mark" or "finalize" before
  collector,     \* tid of the thread running collect (self)
  hdr,           \* Obj -> header word (JlTaggedValue.header)
  fld,           \* Obj -> the object's pointer field (NULL or an object)
  live,          \* objects handed out by an allocator and not reclaimed since
  roots,         \* objects referenced from thread-local roots / stack frames / globals
  fresh,         \* objects allocated since the last safepoint, held in registers only
  allocmap,      \* Pages -> allocation bit of region 0
  meta,          \* Pages -> PageMeta
  current_pg_count,
  region_pg_count,   \* PageMgr.region_pg_count: pages of a region the manager maps
  freelist,      \* Threads -> Pools -> the pool's free list (Vec, push/pop at the end)
  bigrec,        \* BigVals -> BigVal record fields
  big_objects,   \* Threads -> ThreadHeap.big_objects
  big_objects_marked,
  remset, last_remset, remset_nptr,   \* Threads -> ...
  rem_bindings,  \* Threads -> ThreadHeap.rem_bindings (the value of a binding is its fld)
  cache_remset, cache_nptr,           \* Agents -> MarkCache.remset / remset_nptr
  mark_caches,   \* agents that own an entry of the mark_caches table
  scanned_bytes, perm_scanned_bytes,  \* Threads -> byte counters of the thread's Gc2.cache
  \* a mark phase taken step by step, agent by agent, over a heap of its own:
  graph,         \* 1 .. NMark -> [npointers of the object's layout, its pointer field]
  header,        \* 1 .. NMark -> GC bits of the object's header
  mark_stack,    \* Marking.mark_stack (ConcurrentStack: push and pop at the end)
  jobs,          \* scan tasks handed to the pool by scope.execute, not yet started
  todo,          \* roots the coordinator still has to visit: [v, d, remset]
  vms,           \* position of the coordinator in walk_roots / visit_mark_stack
  agent,         \* 0 (coordinator), 1 .. NWorkers -> the agent's scan in progress
  finalizers,    \* Threads -> JlTLS.finalizers (flat list of pairs)
  finalizer_list_marked, to_finalize,
  called,        \* native finalizer invocations np_call_finalizer(fin, v), in order
  weak_refs,     \* Threads -> ThreadHeap.weak_refs (the value slot of a WeakRef is its fld)
  prev_sweep_full, pause,
  interval,      \* gc_num.interval
  last_long_collect_interval,
  nalloc, nstore, ndrop, nfin, ncollect  \* operations of the run so far (they bound the run)

vars == <<pc, collector, hdr, fld, live, roots, fresh, allocmap, meta,
          current_pg_count, region_pg_count, freelist, bigrec, big_objects, big_objects_marked,
          remset, last_remset, remset_nptr, rem_bindings, cache_remset, cache_nptr, mark_caches,
          scanned_bytes, perm_scanned_bytes,
          graph, header, mark_stack, jobs, todo, vms, agent,
          finalizers, finalizer_list_marked, to_finalize, called, weak_refs,
          prev_sweep_full, pause, interval, last_long_collect_interval, nalloc, nstore, ndrop, nfin, ncollect>>

heapVars == <<hdr, fld, live, roots>>
pageVars == <<allocmap, meta, current_pg_count, region_pg_count, freelist>>
bigVars == <<bigrec, big_objects, big_objects_marked>>
remVars == <<remset, last_remset, remset_nptr, rem_bindings>>
cacheVars == <<cache_remset, cache_nptr, mark_caches, scanned_bytes, perm_scanned_bytes,
               graph, header, mark_stack, jobs, todo, vms, agent>>
finVars == <<finalizers, finalizer_list_marked, to_finalize, called>>
cycleVars == <<pc, collector>>
statVars == <<prev_sweep_full, pause, interval, last_long_collect_interval>>
opVars == <<nalloc, nstore, ndrop, nfin, ncollect>>

Agents == Threads \cup {Worker}

\* ------------------------------------------------------------ sequences
Last(s) == s[Len(s)]
Front(s) == SubSeq(s, 1, Len(s) - 1)
Range(s) == {s[i] : i \in 1 .. Len(s)}
\* Vec::swap_remove(i) with a 0-based index i
swap_remove(s, i) ==
  IF i + 1 = Len(s) THEN Front(s)
  ELSE [k \in 1 .. (Len(s) - 1) |-> IF k = i + 1 THEN Last(s) ELSE s[k]]

\* PageMeta::new, and the zeroed metadata array of a fresh region
PageMetaNew == [thread_n |-> 0, pool_n |-> 0, osize |-> 0, has_marked |-> FALSE,
                has_young |-> FALSE, nold |-> 0, nfree |-> 0, ages |-> << >>]

\* The soft address-space limit getrlimit(RLIMIT_AS) reports, a u64, as
\* rlim_cur = hi * (2 * size_of::<Page>()) + lo; ok is false when getrlimit
\* fails or the target has none.  Every limit of at least twice the default
\* region size behaves alike; RLIM_INFINITY is one of them
RLIM_INFINITY == [ok |-> TRUE, hi |-> 2 * DEFAULT_REGION_PG_COUNT, lo |-> 2 * PAGE_SZ - 1]

\* PageMgr::new: the region_pg_count of the new manager.  The start-up loop
\* halves the count while rlim_cur < region_pg_count * size_of::<Page>() * 2,
\* which is hi < region_pg_count, and region_pg_count >= MIN_REGION_PG_COUNT
PageMgr_new(rl) ==
  LET RECURSIVE halve(_)
      halve(c) == IF rl.hi < c /\ c >= MIN_REGION_PG_COUNT THEN halve(c \div 2) ELSE c
  IN IF rl.ok THEN halve(DEFAULT_REGION_PG_COUNT) ELSE DEFAULT_REGION_PG_COUNT

\* ThreadHeap::new / Gc2::new / neptune_init_gc: the collector's state after
\* construction
InitGc ==
  /\ pc = "idle" /\ collector = 0
  /\ hdr = [o \in Obj |-> 0]
  /\ fld = [o \in Obj |-> NULL]
  /\ live = {} /\ roots = {} /\ fresh = {}
  /\ allocmap = [p \in Pages |-> FALSE]
  /\ meta = [p \in Pages |-> PageMetaNew]
  /\ current_pg_count = 0
  /\ freelist = [t \in Threads |-> [k \in Pools |-> << >>]]
  /\ bigrec = [b \in BigVals |-> [tid |-> 0, in_list |-> FALSE, slot |-> 0, age |-> 0, sz |-> 0,
                               allocsz |-> 0]]
  /\ big_objects = [t \in Threads |-> << >>]
  /\ big_objects_marked = << >>
  /\ remset = [t \in Threads |-> << >>]
  /\ last_remset = [t \in Threads |-> << >>]
  /\ rem_bindings = [t \in Threads |-> << >>]
  /\ remset_nptr = [t \in Threads |-> 0]
  /\ cache_remset = [a \in Agents |-> << >>]
  /\ cache_nptr = [a \in Agents |-> 0]
  /\ mark_caches = {}
  /\ scanned_bytes = [t \in Threads |-> 0]
  /\ perm_scanned_bytes = [t \in Threads |-> 0]
  /\ graph = [o \in 1 .. NMark |-> [npointers |-> 0, field |-> NULL]]
  /\ header = [o \in 1 .. NMark |-> GC_CLEAN]
  /\ mark_stack = << >> /\ jobs = << >> /\ todo = << >>
  /\ vms = "idle"
  /\ agent = [a \in 0 .. NWorkers |->
               [st |-> "idle", frames |-> << >>, base |-> 0, e |-> NULL, tag |-> 0,
                remset |-> << >>]]
  /\ finalizers = [t \in Threads |-> << >>]
  /\ finalizer_list_marked = << >> /\ to_finalize = << >>
  /\ called = << >>
  /\ weak_refs = [t \in Threads |-> << >>]
  /\ prev_sweep_full = 0 /\ pause = 0
  /\ interval = 0 /\ last_long_collect_interval = 0
  /\ nalloc = 0 /\ nstore = 0 /\ ndrop = 0 /\ nfin = 0 /\ ncollect = 0

\* neptune_init_gc / neptune_init_page_mgr in a process with no address-space
\* limit
Init == InitGc /\ region_pg_count = PageMgr_new(RLIM_INFINITY)

\* ------------------------------------------------------------- allocation
U16 == 65536

\* PageMgr::alloc_page: the first page of the region whose allocation bit is clear
alloc_page == CHOOSE p \in Pages : ~allocmap[p] /\ \A q \in Pages : q < p => allocmap[q]

\* PageMeta::reset: fresh age bits (all clear), nfree = n_obj; has_marked and
\* has_young keep their old values
reset(m, k) == [m EXCEPT !.pool_n = k, !.ages = [i \in 1 .. CellsPerPage |-> FALSE],
                         !.nfree = CellsPerPage]

\* Gc2::add_page for pool k of thread t: the page state after the call
add_page(t, k) ==
  LET p == alloc_page
      cells == [i \in 1 .. CellsPerPage |-> CellAt(p, i - 1)]
  IN [allocmap |-> [allocmap EXCEPT ![p] = TRUE],
      meta |-> [meta EXCEPT ![p] = reset([@ EXCEPT !.osize = GC_SIZE_CLASSES[k + 1],
                                                   !.thread_n = t], k)],
      hdr |-> [o \in Obj |-> IF o \in Range(cells) THEN set_tag(hdr[o], 0) ELSE hdr[o]],
      freelist |-> [freelist EXCEPT ![t][k] = @ \o cells],
      current_pg_count |-> current_pg_count + 1]

NoPage == [allocmap |-> allocmap, meta |-> meta, hdr |-> hdr, freelist |-> freelist,
           current_pg_count |-> current_pg_count]

\* Gc2::pool_alloc of a cell of pool k with type typ, then yolo_set_header.
\* The host initialises the field to `value` and may keep the result in a
\* rooted slot.
pool_alloc(t, k, typ, value, rooted) ==
  /\ pc = "idle"
  /\ (freelist[t][k] # << >> \/ \E p \in Pages : ~allocmap[p])
  /\ LET s == IF freelist[t][k] = << >> THEN add_page(t, k) ELSE NoPage
         v == Last(s.freelist[t][k])
         pg == PageOf(v)
     IN \/ /\ hdr' = [s.hdr EXCEPT ![v] = typ]
           /\ fld' = [fld EXCEPT ![v] = value]
           /\ live' = live \cup {v}
           /\ roots' = IF rooted THEN roots \cup {v} ELSE roots
           /\ fresh' = fresh \cup {v}
           /\ allocmap' = s.allocmap
           /\ meta' = [s.meta EXCEPT ![pg].has_young = TRUE,
                                     ![pg].nfree = (@ - 1) % U16]
           /\ freelist' = [s.freelist EXCEPT ![t][k] = Front(@)]
           /\ current_pg_count' = s.current_pg_count
           /\ region_pg_count' = region_pg_count
           /\ weak_refs' = IF typ = jl_weakref_type
                           THEN [weak_refs EXCEPT ![t] = Append(@, v)] ELSE weak_refs
           /\ nalloc' = nalloc + 1
           /\ UNCHANGED <<cycleVars, bigVars, remVars, cacheVars, finVars,
                          statVars, nstore, ndrop, nfin, ncollect>>
        \/ \* `meta.nfree -= 1` on a u16 that is 0: a build with overflow checks panics
           /\ s.meta[pg].nfree = 0
           /\ pc' = "panic"
           /\ UNCHANGED <<collector, heapVars, fresh, pageVars, bigVars, remVars,
                          cacheVars, finVars, weak_refs, statVars, opVars>>

\* BigVal::size of a record whose sz_or_age was set to sz and whose age was
\* then set: the two low bits belong to the age
size_bits(sz) == sz - (sz % 4)

\* BigVal::allocd_size
allocd_size(sz) ==
  llt_align(size_bits(sz) + SIZE_OF_BIGVAL + SIZE_OF_JLTAGGEDVALUE, JL_CACHE_BYTE_ALIGNMENT)

\* Gc2::big_alloc, allocsz: the bytes asked of rust_alloc and added to
\* gc_num.allocd for a request of `size` bytes (the size includes the tag)
big_allocsz(size) == llt_align(SIZE_OF_BIGVAL + size, JL_CACHE_BYTE_ALIGNMENT)

\* Gc2::alloc on the big path for a request of `size` payload bytes
\* (big_alloc(size + header), then yolo_set_header)
big_alloc(t, size, rooted) ==
  /\ pc = "idle"
  /\ \E b \in BigVals : b \notin live
  /\ LET v == CHOOSE b \in BigVals : b \notin live /\ \A c \in BigVals : c < b => c \in live
     IN /\ bigrec' = [bigrec EXCEPT ![v] = [tid |-> t, in_list |-> TRUE,
                                            slot |-> Len(big_objects[t]), age |-> 0,
                                            sz |-> size_bits(size + SIZE_OF_JLTAGGEDVALUE),
                                            allocsz |-> big_allocsz(size + SIZE_OF_JLTAGGEDVALUE)]]
        /\ big_objects' = [big_objects EXCEPT ![t] = Append(@, v)]
        /\ hdr' = [hdr EXCEPT ![v] = ObjType]
        /\ fld' = [fld EXCEPT ![v] = NULL]
        /\ live' = live \cup {v}
        /\ roots' = IF rooted THEN roots \cup {v} ELSE roots
        /\ fresh' = fresh \cup {v}
  /\ nalloc' = nalloc + 1
  /\ UNCHANGED <<cycleVars, pageVars, big_objects_marked, remVars, cacheVars, finVars,
                 weak_refs, statVars, nstore, ndrop, nfin, ncollect>>

\* a dispatch that sends every payload the size-class table can hold to a pool
alloc_by_class(t, size, rooted) ==
  LET i == Cardinality({k \in 1 .. GC_N_POOLS : GC_SIZE_CLASSES[k] < size})
  IN IF i < GC_N_POOLS
     THEN pool_alloc(t, i, ObjType, NULL, rooted)
     ELSE big_alloc(t, size, rooted)

\* Gc2::alloc(size, typ): allocsz = size + header; the pool path when
\* allocsz <= GC_MAX_SZCLASS + header, the big path otherwise
Alloc(t, size, rooted) ==
  LET allocsz == size + SIZE_OF_JLTAGGEDVALUE
  IN IF allocsz <= GC_MAX_SZCLASS + SIZE_OF_JLTAGGEDVALUE
     THEN pool_alloc(t, find_pool(allocsz - SIZE_OF_JLTAGGEDVALUE), ObjType, NULL, rooted)
     ELSE big_alloc(t, size, rooted)

\* Gc2::alloc of a one-word object: the pool path
PoolAlloc(t, rooted) == Alloc(t, ObjSize, rooted)

\* The host creates a weak reference to `value` on thread t: Gc2::alloc of a
\* one-word pool cell with the weak-reference type, the value slot is set, and
\* neptune_push_weakref (Gc2::push_weakref) appends it to t's weak_refs
NewWeakRef(t, rooted, value) ==
  pool_alloc(t, find_pool(ObjSize), jl_weakref_type, value, rooted)

\* Gc2::alloc of an object just too large for the pools: the big path
BigAlloc(t, rooted) == Alloc(t, GC_MAX_SZCLASS + 1, rooted)

\* ---------------------------------------------------------------- marking
\* The state the mark phase works on: headers, the overflow mark stack, the
\* marking agents' caches (remset, remset_nptr, which caches exist) and the
\* value returned by the last push_root; self is the coordinating thread.
MarkState(h, t) == [hdr |-> h, stack |-> << >>, crem |-> cache_remset,
                    cnptr |-> cache_nptr, caches |-> mark_caches, ret |-> 0, self |-> t,
                    bnd |-> rem_bindings]

\* a swap that stores the header it read
setmark_tag_no_mark(h, mark_mode, reset_age) == [tag |-> h, bits |-> mark_mode]

\* Marking::setmark_tag: the header to store and the resulting mark bits
setmark_tag(h, mark_mode, reset_age) ==
  IF reset_age # 0
  THEN [tag |-> set_tag(h, GC_MARKED), bits |-> GC_MARKED]
  ELSE LET mm == IF old(h) THEN GC_OLD_MARKED ELSE mark_mode
       IN [tag |-> set_tag(h, mm), bits |-> mm]

RECURSIVE push_root(_, _, _, _, _)
\* Marking::scan_obj for a weak reference (not scanned) or a generic datatype
\* with one pointer field, run by agent ag (gc_cache() is ag's cache, created
\* on first use)
scan_obj(m, v, d0, bits, ag, reset_age) ==
  LET d == d0 + 1 IN
  IF type_tag(m.hdr[v]) = jl_weakref_type THEN m
  ELSE IF d >= MAX_MARK_DEPTH THEN [m EXCEPT !.stack = Append(@, v)]
  ELSE LET m1 == IF fld[v] # NULL THEN push_root(m, fld[v], d, ag, reset_age)
                 ELSE [m EXCEPT !.ret = 0]
           refyoung == m1.ret
       IN IF bits = GC_OLD_MARKED /\ refyoung > 0
          THEN [m1 EXCEPT !.crem[ag] = Append(@, v), !.cnptr[ag] = @ + 1,
                          !.caches = @ \cup {ag}]
          ELSE m1

\* Marking::push_root
push_root(m, e, d, ag, reset_age) ==
  LET h == m.hdr[e] IN
  IF ~marked(h)
  THEN LET r == setmark_tag(h, GC_MARKED, reset_age)
           m1 == [m EXCEPT !.hdr[e] = r.tag]
           m2 == scan_obj(m1, e, d, r.bits, ag, reset_age)
       IN [m2 EXCEPT !.ret = IF old(r.bits) THEN 0 ELSE 1]
  ELSE [m EXCEPT !.ret = IF old(h) THEN 0 ELSE 1]

\* Marking::scan_obj3
scan_obj3(m, v, d, h, ag, reset_age) == scan_obj(m, v, d, nontype_tag(h), ag, reset_age)

RECURSIVE visit_mark_stack(_, _)
\* Marking::visit_mark_stack: the coordinator pops, the worker scans
visit_mark_stack(m, reset_age) ==
  IF m.stack = << >> THEN m
  ELSE LET v == Last(m.stack)
           m1 == [m EXCEPT !.stack = Front(@)]
       IN visit_mark_stack(scan_obj3(m1, v, 0, m1.hdr[v], Worker, reset_age), reset_age)

\* a collector that forgets the remembered set: mark_remset scans nothing
mark_remset_skipped(m, lst, i) == m

RECURSIVE mark_remset(_, _, _)
\* Marking::mark_remset over a last_remset list, from index i (1-based)
mark_remset(m, lst, i) ==
  IF i > Len(lst) THEN m
  ELSE mark_remset(scan_obj3(m, lst[i], MAX_MARK_DEPTH, m.hdr[lst[i]], m.self, 0), lst, i + 1)

RECURSIVE push_roots(_, _)
\* mark_thread_local / mark_roots: every root is pushed at MAX_MARK_DEPTH
push_roots(m, rs) ==
  IF rs = {} THEN m
  ELSE LET r == CHOOSE x \in rs : \A y \in rs : x <= y
       IN push_roots(push_root(m, r, MAX_MARK_DEPTH, m.self, 0), rs \ {r})

RECURSIVE mark_bindings(_, _, _, _)
\* Marking::mark_remset, the loop over the rem_bindings of thread t from
\* index i (0-based): a binding whose value is young is swapped to the front
\* part of length n, and the list is truncated to that part
mark_bindings(m, t, i, n) ==
  IF i >= Len(m.bnd[t]) THEN [m EXCEPT !.bnd[t] = SubSeq(@, 1, n)]
  ELSE LET b == m.bnd[t][i + 1] IN
       IF fld[b] = NULL THEN mark_bindings(m, t, i + 1, n)
       ELSE LET m1 == push_root(m, fld[b], MAX_MARK_DEPTH, m.self, 0)
            IN IF m1.ret # 0
               THEN mark_bindings([m1 EXCEPT !.bnd[t] = [@ EXCEPT ![i + 1] = m1.bnd[t][n + 1],
                                                                  ![n + 1] = b]],
                                  t, i + 1, n + 1)
               ELSE mark_bindings(m1, t, i + 1, n)

RECURSIVE walk_remsets(_, _, _)
\* walk_roots, the mark_remset calls: lr is last_remset as premark left it
walk_remsets(m, lr, t) ==
  IF t >= NThreads THEN m
  ELSE walk_remsets(mark_bindings(mark_remset(m, lr[t], 1), t, 0, 0), lr, t + 1)

\* Marking::walk_roots
walk_roots(m, lr) == visit_mark_stack(push_roots(walk_remsets(m, lr, 0), roots), 0)

\* ------------------------------------------------------------------ sweep
\* The state the sweep works on.  `underflow` records that an unsigned
\* subtraction went below zero (a build with overflow checks panics there),
\* `fault` that the sweep unwrapped the age bits of a page that has none
\* (every build panics there).
SweepState(h) == [hdr |-> h, meta |-> meta, allocmap |-> allocmap,
                  freelist |-> freelist, current_pg_count |-> current_pg_count,
                  live |-> live, remaining |-> 0, stop |-> FALSE, underflow |-> FALSE,
                  fault |-> FALSE, freed |-> 0]

\* a sweep that treats every pass as a quick one: OLD_MARKED is never demoted
sweep_bits_quick(bits, aged, full) ==
  IF aged \/ bits = GC_OLD_MARKED
  THEN (IF bits = GC_MARKED THEN GC_OLD ELSE bits)
  ELSE GC_CLEAN

\* a sweep whose quick pass leaves every aged cell OLD_MARKED
sweep_bits_keep(bits, aged, full) ==
  IF aged \/ bits = GC_OLD_MARKED
  THEN (IF full THEN GC_OLD ELSE GC_OLD_MARKED)
  ELSE GC_CLEAN

\* sweep_pool_chunk, second loop: the new GC bits of a marked cell
sweep_bits(bits, aged, full) ==
  IF aged \/ bits = GC_OLD_MARKED
  THEN (IF full \/ bits = GC_MARKED THEN GC_OLD ELSE bits)
  ELSE GC_CLEAN

\* a page manager that clears the bit of a freed page and keeps its count
free_page_in_region_count_kept(s, p) ==
  [s EXCEPT !.allocmap[p] = FALSE, !.meta[p].ages = << >>]

\* PageMgr::free_page_in_region
free_page_in_region(s, p) ==
  [s EXCEPT !.allocmap[p] = FALSE, !.meta[p].ages = << >>,
            !.current_pg_count = @ - 1]

\* sweep_pool_chunk, the body of the loop for one allocated page p
sweep_page(s, p, full) ==
  IF ~(full \/ s.meta[p].has_young) THEN s
  ELSE
    LET idx == 0 .. (CellsPerPage - 1)
        unmarkedIdx == {i \in idx : ~marked(s.hdr[CellAt(p, i)])}
        nfree == Cardinality(unmarkedIdx)
        uf == \/ s.underflow \/ nfree < s.meta[p].nfree
              \/ s.meta[p].osize + SIZE_OF_JLTAGGEDVALUE < JL_SMALL_BYTE_ALIGNMENT
        bytes_freed == s.freed + (nfree - s.meta[p].nfree) * s.meta[p].osize
        owner == s.meta[p].thread_n
        ages == s.meta[p].ages
        freed == [k \in 1 .. nfree |->
                   CellAt(p, CHOOSE i \in unmarkedIdx :
                               Cardinality({j \in unmarkedIdx : j < i}) = k - 1)]
        has_young == \E i \in idx \ unmarkedIdx :
                        ~(ages[i + 1] \/ tag(s.hdr[CellAt(p, i)]) = GC_OLD_MARKED)
    IN IF ages = << >> /\ nfree # CellsPerPage
       THEN [s EXCEPT !.fault = TRUE]
       ELSE IF nfree # CellsPerPage
       THEN [s EXCEPT
               !.underflow = uf, !.freed = bytes_freed,
               !.hdr = [o \in Obj |->
                          IF o \in PoolCells /\ PageOf(o) = p /\ marked(s.hdr[o])
                          THEN set_tag(s.hdr[o], sweep_bits(tag(s.hdr[o]), ages[IndexOf(o) + 1], full))
                          ELSE s.hdr[o]],
               !.meta[p] = [@ EXCEPT !.nfree = nfree, !.nold = 0, !.has_marked = TRUE,
                                     !.has_young = has_young,
                                     !.ages = [i \in 1 .. CellsPerPage |->
                                                 IF (i - 1) \in unmarkedIdx THEN ages[i] ELSE TRUE]],
               !.freelist[owner][s.meta[p].pool_n] = @ \o freed,
               !.live = @ \ Range(freed)]
       ELSE free_page_in_region(
              [s EXCEPT !.underflow = uf, !.freed = bytes_freed,
                        !.meta[p] = [@ EXCEPT !.nfree = nfree, !.nold = 0,
                                              !.has_marked = FALSE, !.has_young = FALSE],
                        !.live = @ \ {CellAt(p, i) : i \in idx}], p)

RECURSIVE sweep_pool_chunk(_, _, _, _)
\* sweep_pool_chunk over the pages of the chunk from page j on; m is the
\* allocmap word read when the chunk started
sweep_pool_chunk(s, m, j, full) ==
  IF j >= NPages \/ s.stop \/ ~(\E k \in Pages : k >= j /\ m[k]) THEN s
  ELSE IF ~m[j] THEN sweep_pool_chunk(s, m, j + 1, full)
  ELSE LET s1 == sweep_page(s, j, full)
           s2 == [s1 EXCEPT !.remaining = @ - 1, !.stop = (s1.remaining - 1 = 0)]
       IN sweep_pool_chunk(s2, m, j + 1, full)

\* Gc2::clear_freelists: the pools of the collecting thread only
clear_freelists(s) == [s EXCEPT !.freelist[collector] = [k \in Pools |-> << >>]]

\* a pool sweep that visits every allocated page, as a full sweep does
sweep_pools_every_page(s, full) ==
  LET s0 == [clear_freelists(s) EXCEPT !.remaining = s.current_pg_count]
  IN IF s0.remaining = 0 THEN s0 ELSE sweep_pool_chunk(s0, s0.allocmap, 0, TRUE)

\* Gc2::sweep_pools
sweep_pools(s, full) ==
  LET s0 == [clear_freelists(s) EXCEPT !.remaining = s.current_pg_count]
  IN IF s0.remaining = 0 THEN s0 ELSE sweep_pool_chunk(s0, s0.allocmap, 0, full)

\* --- big objects
\* a sweep that promotes a marked big object at once, whatever its age
big_bits_at_once(bits, age, full) ==
  IF full \/ bits = GC_MARKED THEN GC_OLD ELSE bits

\* sweep_big_list, one marked entry: new bits and age
big_bits(bits, age, full) ==
  IF age >= PROMOTE_AGE \/ bits = GC_OLD_MARKED
  THEN (IF full \/ bits = GC_MARKED THEN GC_OLD ELSE bits)
  ELSE GC_CLEAN

\* BigVal::inc_age: saturates at PROMOTE_AGE
inc_age(age) == IF age < PROMOTE_AGE THEN age + 1 ELSE age

RECURSIVE sweep_big_list(_, _, _)
\* Gc2::sweep_big_list over s.list from 0-based index i
sweep_big_list(s, i, full) ==
  IF i >= Len(s.list) THEN s
  ELSE LET b == s.list[i + 1]
           bits == tag(s.hdr[b])
       IN IF marked(bits)
          THEN sweep_big_list(
                 [s EXCEPT !.hdr[b] = set_tag(@, big_bits(bits, s.bigrec[b].age, full)),
                           !.bigrec[b].age =
                              IF @ >= PROMOTE_AGE \/ bits = GC_OLD_MARKED
                              THEN @ ELSE inc_age(@)],
                 i + 1, full)
          ELSE sweep_big_list(
                 [s EXCEPT !.list = swap_remove(@, i), !.live = @ \ {b},
                           !.freed = @ + allocd_size(s.bigrec[b].sz)], i, full)

\* --- weak references
\* a sweep that never invalidates a weak reference
weakref_value_kept(h, v) == v

\* sweep_weakrefs, a live weak reference: the value slot afterwards.  For a
\* slot that already holds jl_nothing the code reads the header of the host's
\* nothing object; either outcome leaves jl_nothing in the slot.
weakref_value(h, v) ==
  IF v = jl_nothing THEN jl_nothing
  ELSE IF ~marked(h[v]) THEN jl_nothing ELSE v

RECURSIVE sweep_weakrefs(_, _, _)
\* Gc2::sweep_weakrefs over w.list from 0-based index i; w.fld are the fields.
\* An entry whose first word is NULL (the cell was handed out again as an
\* ordinary object) makes the code read a header below address 0: w.fault.
sweep_weakrefs(w, h, i) ==
  IF i >= Len(w.list) \/ w.fault THEN w
  ELSE LET wr == w.list[i + 1]
       IN IF marked(h[wr])
          THEN IF w.fld[wr] = NULL THEN [w EXCEPT !.fault = TRUE]
               ELSE sweep_weakrefs([w EXCEPT !.fld[wr] = weakref_value(h, @)], h, i + 1)
          ELSE sweep_weakrefs([w EXCEPT !.list = swap_remove(@, i)], h, i)

RECURSIVE sweep_all_weakrefs(_, _, _)
\* Gc2::sweep, the first loop: sweep_weakrefs of every thread
sweep_all_weakrefs(w, h, t) ==
  IF t >= NThreads THEN w
  ELSE LET r == sweep_weakrefs([w EXCEPT !.list = w.lists[t]], h, 0)
       IN sweep_all_weakrefs([r EXCEPT !.lists[t] = r.list], h, t + 1)

\* a sweep_remset that marks the remset entries in a full sweep too
sweep_remset_hdr_always(h, full) ==
  [o \in Obj |-> IF \E t \in Threads : o \in Range(remset[t]) \cup Range(rem_bindings[t])
                 THEN set_tag(h[o], GC_MARKED) ELSE h[o]]

\* a sweep_remset that leaves the headers of the entries alone
sweep_remset_hdr_untouched(h, full) == h

\* Gc2::sweep_remset headers: a quick sweep marks the remset entries
sweep_remset_hdr(h, full) ==
  IF full THEN h
  ELSE [o \in Obj |-> IF \E t \in Threads : o \in Range(remset[t]) \cup Range(rem_bindings[t])
                      THEN set_tag(h[o], GC_MARKED) ELSE h[o]]

\* ------------------------------------------------------------- mutator API
\* Gc2::queue_root (neptune_queue_root) called by thread t: new header of the
\* object, remset and remset_nptr of t
queue_root(t, root) ==
  [hdr |-> [hdr EXCEPT ![root] = set_tag(@, GC_MARKED)],
   remset |-> [remset EXCEPT ![t] = Append(@, root)],
   remset_nptr |-> [remset_nptr EXCEPT ![t] = @ + 1]]

RECURSIVE ReachFrom(_)
\* objects reachable from a set through the pointer fields (the value slot
\* of a weak reference is not one)
ReachFrom(S) ==
  LET T == S \cup ({fld[o] : o \in {x \in S : type_tag(hdr[x]) # jl_weakref_type}} \ {NULL})
  IN IF T = S THEN S ELSE ReachFrom(T)

\* what the mutator can name: its roots and what they reach, and the objects
\* it allocated since the last safepoint (still in registers)
Accessible == ReachFrom(roots \cup fresh)

\* A pointer store parent.field = child by thread t (both objects are ones
\* the mutator can name), followed by the write barrier: the mutator calls
\* queue_root whenever the parent is OLD_MARKED
Store(t, parent, child) ==
  /\ pc = "idle"
  /\ fld[parent] # child
  /\ fld' = [fld EXCEPT ![parent] = child]
  /\ IF tag(hdr[parent]) = GC_OLD_MARKED
     THEN LET q == queue_root(t, parent)
          IN hdr' = q.hdr /\ remset' = q.remset /\ remset_nptr' = q.remset_nptr
     ELSE UNCHANGED <<hdr, remset, remset_nptr>>
  /\ nstore' = nstore + 1
  /\ UNCHANGED <<cycleVars, live, roots, fresh, pageVars, bigVars, last_remset, rem_bindings,
                 cacheVars,
                 finVars, weak_refs, statVars, nalloc, ndrop, nfin, ncollect>>

\* neptune_queue_root called by thread t on an object the mutator can name,
\* whatever its colour.  The debug_assert on the colour exists in debug builds
\* only: such a build panics on a parent that is not OLD_MARKED, a release
\* build runs the body.
QueueRoot(t, root) ==
  /\ pc = "idle"
  /\ \/ /\ tag(hdr[root]) # GC_OLD_MARKED
        /\ pc' = "panic"
        /\ UNCHANGED <<collector, heapVars, fresh, pageVars, bigVars, remVars,
                       cacheVars, finVars, weak_refs, statVars, opVars>>
     \/ /\ LET q == queue_root(t, root)
           IN hdr' = q.hdr /\ remset' = q.remset /\ remset_nptr' = q.remset_nptr
        /\ nstore' = nstore + 1
        /\ UNCHANGED <<cycleVars, fld, live, roots, fresh, pageVars, bigVars, last_remset, rem_bindings,
                       cacheVars, finVars, weak_refs, statVars, nalloc, ndrop, nfin, ncollect>>

\* Gc2::queue_binding called by thread t: new header of the binding and
\* rem_bindings of t
queue_binding(t, binding) ==
  [hdr |-> [hdr EXCEPT ![binding] = set_tag(@, GC_MARKED)],
   rem_bindings |-> [rem_bindings EXCEPT ![t] = Append(@, binding)]]

\* A store of `value` into the binding by thread t, followed by the binding
\* write barrier: the mutator calls neptune_queue_binding whenever the binding
\* is OLD_MARKED
StoreBinding(t, binding, value) ==
  /\ pc = "idle"
  /\ fld[binding] # value
  /\ fld' = [fld EXCEPT ![binding] = value]
  /\ IF tag(hdr[binding]) = GC_OLD_MARKED
     THEN LET q == queue_binding(t, binding)
          IN hdr' = q.hdr /\ rem_bindings' = q.rem_bindings
     ELSE UNCHANGED <<hdr, rem_bindings>>
  /\ nstore' = nstore + 1
  /\ UNCHANGED <<cycleVars, live, roots, fresh, pageVars, bigVars, remset, last_remset,
                 remset_nptr, cacheVars, finVars, weak_refs, statVars, nalloc, ndrop, nfin,
                 ncollect>>

\* The mutator drops a root: a stack slot or global no longer holds the object
DropRoot(o) ==
  /\ pc = "idle"
  /\ o \in roots
  /\ roots' = roots \ {o}
  /\ ndrop' = ndrop + 1
  /\ UNCHANGED <<cycleVars, hdr, fld, live, fresh, pageVars, bigVars, remVars, cacheVars,
                 finVars, weak_refs, statVars, nalloc, nstore, nfin, ncollect>>

\* a marking that updates the header only
setmark_pool_header_only(c, mark_mode, t) ==
  [scanned_bytes |-> scanned_bytes, perm_scanned_bytes |-> perm_scanned_bytes, meta |-> meta]

\* MarkCache::setmark_pool on thread t's Gc2.cache for the pool cell c that
\* was just marked with mark_mode (mark_reset_age is 0 outside a collection):
\* the byte counters of the cache and the metadata of the cell's page
setmark_pool(c, mark_mode, t) ==
  IF mark_mode = GC_OLD_MARKED
  THEN [scanned_bytes |-> scanned_bytes,
        perm_scanned_bytes |-> [perm_scanned_bytes EXCEPT ![t] = @ + meta[PageOf(c)].osize],
        meta |-> [meta EXCEPT ![PageOf(c)].nold = (@ + 1) % U16]]
  ELSE [scanned_bytes |-> [scanned_bytes EXCEPT ![t] = @ + meta[PageOf(c)].osize],
        perm_scanned_bytes |-> perm_scanned_bytes,
        meta |-> meta]

\* Gc2::mark_concurrently (jl_gc_setmark) called by thread t on a value v the
\* host can name, outside a collection.  find_pagemeta finds no page for a big
\* object and setmark_pool unwraps its result: the call panics after the
\* header was swapped.
MarkConcurrently(t, v) ==
  /\ pc = "idle"
  /\ IF marked(hdr[v])
     THEN UNCHANGED vars
     ELSE LET r == setmark_tag(hdr[v], GC_MARKED, 0)
              c == setmark_pool(v, r.bits, t)
          IN /\ hdr' = [hdr EXCEPT ![v] = r.tag]
             /\ IF v \in BigVals
                THEN pc' = "panic" /\ UNCHANGED <<meta, scanned_bytes, perm_scanned_bytes>>
                ELSE /\ pc' = pc
                     /\ meta' = c.meta
                     /\ scanned_bytes' = c.scanned_bytes
                     /\ perm_scanned_bytes' = c.perm_scanned_bytes
             /\ UNCHANGED <<collector, fld, live, roots, fresh, allocmap, current_pg_count, region_pg_count,
                            freelist, bigVars, remVars, cache_remset, cache_nptr, mark_caches,
                            graph, header, mark_stack, jobs, todo, vms, agent,
                            finVars, weak_refs, statVars, opVars>>

\* occurrences of the pair (v0, fin) in a flat list of pairs
Occ(l, v0, fin) ==
  Cardinality({i \in 1 .. Len(l) : i % 2 = 1 /\ l[i] = v0 /\ l[i + 1] = fin})

\* The host registers a finalizer for an object it can name, on thread t's
\* list: a managed callable fin, or a native function whose pair carries the
\* tag in the low bit of the object pointer.  A pair is registered once.
RegisterFinalizer(t, o, fin, native) ==
  /\ pc = "idle"
  /\ LET v0 == IF native THEN PtrOf(o) + 1 ELSE PtrOf(o)
         f == IF native THEN CFun ELSE PtrOf(fin)
     IN /\ \A u \in Threads : Occ(finalizers[u], v0, f) = 0
        /\ Occ(finalizer_list_marked, v0, f) = 0
        /\ Occ(to_finalize, PtrOf(o), f) = 0
        /\ <<f, PtrOf(o)>> \notin Range(called)
        /\ finalizers' = [finalizers EXCEPT ![t] = @ \o <<v0, f>>]
  /\ nfin' = nfin + 1
  /\ UNCHANGED <<cycleVars, heapVars, fresh, pageVars, bigVars, remVars, cacheVars,
                 finalizer_list_marked, to_finalize, called, weak_refs, statVars,
                 nalloc, nstore, ndrop, ncollect>>

\* ------------------------------------------------------------- collection
\* Gc2::premark over all threads: headers of the entries of remset and of
\* rem_bindings
premark_hdr ==
  [o \in Obj |-> IF \E t \in Threads : o \in Range(remset[t]) \cup Range(rem_bindings[t])
                 THEN set_tag(hdr[o], GC_OLD_MARKED) ELSE hdr[o]]

\* a premark that leaves the young remset as it is
premark_keep ==
  [hdr |-> premark_hdr, last_remset |-> remset, remset |-> remset, remset_nptr |-> remset_nptr]

\* Gc2::premark of every thread: the headers, then remset and last_remset are
\* swapped, remset is cleared and remset_nptr is zeroed
premark ==
  [hdr |-> premark_hdr, last_remset |-> remset,
   remset |-> [t \in Threads |-> << >>], remset_nptr |-> [t \in Threads |-> 0]]

\* --- finalizers
\* the lists the finalizer sweeps work on
FinLists == [finalizers |-> finalizers, marked |-> finalizer_list_marked,
             to_finalize |-> to_finalize, called |-> called]

\* a removal that truncates the list without moving the last pair into the hole
remove_pair_truncating(f) == [f EXCEPT !.len = @ - 2]

\* the swap-with-last removal of the pair at 0-based index i
remove_pair(f) ==
  IF f.i < f.len - 2
  THEN [f EXCEPT !.items[f.i + 1] = f.items[f.len - 1],
                 !.items[f.i + 2] = f.items[f.len],
                 !.len = @ - 2]
  ELSE [f EXCEPT !.len = @ - 2]

\* a dispatch that schedules every freed pair as it is stored, native or not
schedule_stored(f, is_cptr, v0, v, fin) == [f EXCEPT !.g.to_finalize = @ \o <<v0, fin>>]

\* a dispatch that drops a freed native pair without calling its finalizer
schedule_managed_only(f, is_cptr, v0, v, fin) ==
  IF is_cptr THEN f ELSE [f EXCEPT !.g.to_finalize = @ \o <<v, fin>>]

\* sweep_finalizer_list, a freed pair: a native finalizer is called at once
\* (np_call_finalizer), a managed one is scheduled (schedule_finalization)
schedule_finalization(f, is_cptr, v0, v, fin) ==
  IF is_cptr
  THEN [f EXCEPT !.g.called = Append(@, <<fin, v>>)]
  ELSE [f EXCEPT !.g.to_finalize = @ \o <<v, fin>>]

RECURSIVE sweep_finalizer_loop(_, _, _)
\* Gc2::sweep_finalizer_list, the while loop; f = [items, len, i, g] with g the
\* process-wide lists, h the headers; is_marked_list tells that the list swept
\* is finalizer_list_marked itself
sweep_finalizer_loop(f, h, is_marked_list) ==
  IF f.i >= f.len THEN f
  ELSE
    LET v0 == f.items[f.i + 1]
        is_cptr == marked(v0)
        v == clear_tag(v0, 1)
    IN IF v0 = NULL
       THEN sweep_finalizer_loop(
              [remove_pair(f) EXCEPT !.i = IF f.i < f.len - 2 THEN @ ELSE @ + 2],
              h, is_marked_list)
       ELSE
         LET fin == f.items[f.i + 2]
             isfreed == ~marked(h[ObjOf(v)])
             isold == /\ ~is_marked_list
                      /\ tag(h[ObjOf(v)]) = GC_OLD_MARKED
                      /\ (is_cptr \/ tag(h[ObjOf(fin)]) = GC_OLD_MARKED)
             dontIncrement == (isfreed \/ isold) /\ f.i < f.len - 2
             f1 == IF isfreed \/ isold THEN remove_pair(f) ELSE f
             f2 == IF isfreed THEN schedule_finalization(f1, is_cptr, v0, v, fin) ELSE f1
             f3 == IF isold THEN [f2 EXCEPT !.g.marked = @ \o <<v0, fin>>] ELSE f2
         IN sweep_finalizer_loop(
              [f3 EXCEPT !.i = IF dontIncrement THEN @ ELSE @ + 2], h, is_marked_list)

\* Gc2::sweep_finalizer_list on thread t's list: the lists afterwards
sweep_finalizer_list(g, h, t) ==
  LET f == sweep_finalizer_loop([items |-> g.finalizers[t], len |-> Len(g.finalizers[t]),
                                 i |-> 0, g |-> g], h, FALSE)
  IN [f.g EXCEPT !.finalizers[t] = SubSeq(f.items, 1, f.len)]

\* Gc2::sweep_finalizer_list on finalizer_list_marked
sweep_marked_list(g, h) ==
  LET f == sweep_finalizer_loop([items |-> g.marked, len |-> Len(g.marked),
                                 i |-> 0, g |-> g], h, TRUE)
  IN [f.g EXCEPT !.marked = SubSeq(f.items, 1, f.len)]

RECURSIVE sweep_thread_finalizers(_, _, _)
sweep_thread_finalizers(g, h, t) ==
  IF t >= NThreads THEN g
  ELSE sweep_thread_finalizers(sweep_finalizer_list(g, h, t), h, t + 1)

\* collect: the finalizer sweeps (every thread's list, then
\* finalizer_list_marked when the previous sweep was full)
sweep_finalizers(h) ==
  LET g == sweep_thread_finalizers(FinLists, h, 0)
  IN IF prev_sweep_full # 0 THEN sweep_marked_list(g, h) ELSE g

RECURSIVE mark_object_list(_, _, _, _)
\* Marking::mark_object_list from 0-based index i, run by the coordinator
mark_object_list(m, l, i, reset_age) ==
  IF i >= Len(l) THEN m
  ELSE LET v == l[i + 1] IN
       IF v = NULL THEN mark_object_list(m, l, i + 1, reset_age)
       ELSE IF v % 2 # 0
       THEN mark_object_list(push_root(m, ObjOf(clear_tag(v, 1)), 0, m.self, reset_age),
                             l, i + 2, reset_age)
       ELSE mark_object_list(push_root(m, ObjOf(v), 0, m.self, reset_age),
                             l, i + 1, reset_age)

RECURSIVE mark_thread_finalizers(_, _, _)
mark_thread_finalizers(m, g, t) ==
  IF t >= NThreads THEN m
  ELSE mark_thread_finalizers(mark_object_list(m, g.finalizers[t], 0, 0), g, t + 1)

\* a mark_finalizers that marks the lists of registered pairs only and leaves
\* the scheduled pairs of to_finalize alone
mark_finalizers_registered_only(m, g, orig_marked_len) ==
  visit_mark_stack(mark_object_list(mark_thread_finalizers(m, g, 0), g.marked,
                                    orig_marked_len, 0), 0)

\* Marking::mark_finalizers on the lists g
mark_finalizers(m, g, orig_marked_len) ==
  LET m1 == mark_thread_finalizers(m, g, 0)
      m2 == mark_object_list(m1, g.marked, orig_marked_len, 0)
      m3 == visit_mark_stack(m2, 0)
      m4 == mark_object_list(m3, g.to_finalize, 0, 1)
  IN visit_mark_stack(m4, 1)

\* Gc2::verify_to_finalize: a tagged object entry (debug builds panic on it)
to_finalize_tagged(l) == \E i \in 1 .. Len(l) : i % 2 = 1 /\ l[i] % 2 # 0

\* a synchronization that zeroes the caches without folding their entries
sync_remset_dropped(m, t, first) ==
  [remset |-> premark.remset, remset_nptr |-> premark.remset_nptr]

\* MarkCache::sync_remset of the caches into the collecting thread t's heap.
\* mark_caches is a HashMap: `first` is the cache its iteration yields first.
sync_remset(m, t, first) ==
  LET second == IF first = Worker THEN t ELSE Worker
  IN [remset |-> [premark.remset EXCEPT ![t] = @ \o m.crem[first] \o m.crem[second]],
      remset_nptr |-> [premark.remset_nptr EXCEPT ![t] = @ + m.cnptr[t] + m.cnptr[Worker]]]

\* Gc2::collect up to the sweep decision, run by thread t: verify_remsets, the
\* entry assertion on mark_caches, premark of every thread, walk_roots, the
\* finalizer sweeps, mark_finalizers, verify_to_finalize, sync_caches and the
\* assertion that every pool worker (and nobody else) owns a mark cache.  The
\* worker scans the host's root modules and so owns a mark cache afterwards.
CollectMark(t) ==
  /\ pc = "idle"
  /\ collector' = t
  /\ \E pm \in {premark} :
     \E m0 \in {walk_roots(MarkState(pm.hdr, t), pm.last_remset)} :
     \E g \in {sweep_finalizers(m0.hdr)} :
     \E m \in {mark_finalizers(m0, g, IF prev_sweep_full # 0 THEN 0
                                      ELSE Len(finalizer_list_marked))} :
     LET caches == m.caches \cup {Worker}
         panics == \/ \E a \in Agents : cache_remset[a] # << >>
                   \/ Cardinality(mark_caches) > ThreadCount
                   \/ Cardinality(caches) # ThreadCount
     IN \/ /\ panics \/ to_finalize_tagged(g.to_finalize)
           /\ pc' = "panic"
           /\ UNCHANGED <<heapVars, fresh, remVars, cacheVars, finVars, opVars>>
        \/ /\ ~panics
           /\ pc' = "synced"
           /\ hdr' = m.hdr
           /\ last_remset' = pm.last_remset
           /\ rem_bindings' = m.bnd
           /\ \E first \in (IF m.crem[t] # << >> /\ m.crem[Worker] # << >>
                           THEN {t, Worker} ELSE {Worker}) :
                LET r == sync_remset(m, t, first)
                IN remset' = r.remset /\ remset_nptr' = r.remset_nptr
           /\ cache_remset' = [a \in Agents |-> << >>]
           /\ UNCHANGED <<graph, header, mark_stack, jobs, todo, vms, agent>>
           /\ cache_nptr' = [a \in Agents |-> 0]
           /\ mark_caches' = caches
           /\ scanned_bytes' = [u \in Threads |-> 0]
           /\ perm_scanned_bytes' = [u \in Threads |-> 0]
           /\ finalizers' = g.finalizers
           /\ finalizer_list_marked' = g.marked
           /\ to_finalize' = g.to_finalize
           /\ called' = g.called
           /\ fresh' = {}
           /\ ncollect' = ncollect + 1
           /\ UNCHANGED <<fld, live, roots, nalloc, nstore, ndrop, nfin>>
  /\ UNCHANGED <<pageVars, bigVars, weak_refs, statVars>>

RECURSIVE sweep_local_bigvals(_, _, _)
\* sweep_bigvals, the loop over the threads: s.lists holds every thread's list
sweep_local_bigvals(s, t, full) ==
  IF t >= NThreads THEN s
  ELSE LET r == sweep_big_list([s EXCEPT !.list = s.lists[t]], 0, full)
       IN sweep_local_bigvals([r EXCEPT !.lists[t] = r.list], t + 1, full)

\* Gc2::sweep_bigvals
sweep_bigvals(h, lv, full) ==
  LET s0 == [hdr |-> h, bigrec |-> bigrec, live |-> lv, list |-> << >>,
             lists |-> big_objects, old |-> big_objects_marked, freed |-> 0]
      s1 == sweep_local_bigvals(s0, 0, full)
  IN IF full
     THEN LET r == sweep_big_list([s1 EXCEPT !.list = s1.old], 0, full)
          IN [r EXCEPT !.lists[collector] = @ \o r.list, !.old = << >>]
     ELSE s1

RECURSIVE SumNptr(_, _)
\* collect: remset_nptr summed over the threads t, t+1, ...
SumNptr(rn, t) == IF t >= NThreads THEN 0 ELSE rn[t] + SumNptr(rn, t + 1)

\* i64 division of Rust: truncation toward zero
TruncDiv(a, b) == IF a >= 0 THEN a \div b ELSE 0 - ((0 - a) \div b)

\* The byte statistics collect reads for its decision: estimate_freed and
\* actual_allocd (from live_bytes, since_sweep, scanned_bytes and
\* perm_scanned_bytes), the remembered pointer count nptr, promoted_bytes and
\* whether gc_check_heap_size returns non-zero.
not_freed_enough(st) == st.estimate_freed < 7 * TruncDiv(st.actual_allocd, 10)
large_frontier(st) == st.nptr * SIZE_OF_PTR >= DEFAULT_COLLECT_INTERVAL

\* the statistical part of the sweep decision
heuristics_of(st) ==
  \/ large_frontier(st)
  \/ /\ not_freed_enough(st) \/ st.promoted_bytes >= interval
     /\ st.promoted_bytes >= DEFAULT_COLLECT_INTERVAL \/ prev_sweep_full # 0
  \/ st.heap_check

\* a decision that ignores the number of cycles run so far
sweep_decision_any_pause(full, heuristics) == full \/ heuristics

\* the sweep decision of collect; `heuristics` stands for the byte statistics
\* (large_frontier, not_freed_enough, promoted_bytes, gc_check_heap_size)
sweep_decision(full, heuristics) == (full \/ heuristics) /\ pause > 1

\* an interval that a full sweep never changes
grow_interval_never(i) == i

\* collect, full sweep with not_freed_enough or large_frontier: the interval
\* is raised to the default, or grows by 5/2 while it is at most 2/5 of the
\* maximum
grow_interval(i) ==
  IF i < DEFAULT_COLLECT_INTERVAL THEN DEFAULT_COLLECT_INTERVAL
  ELSE IF i <= 2 * (MAX_COLLECT_INTERVAL \div 5) THEN 5 * (i \div 2)
  ELSE i

\* collect: gc_num.interval after the decision
next_interval(sweep_full, st) ==
  IF sweep_full
  THEN LET i == IF large_frontier(st) THEN last_long_collect_interval ELSE interval
       IN IF not_freed_enough(st) \/ large_frontier(st) THEN grow_interval(i) ELSE i
  ELSE DEFAULT_COLLECT_INTERVAL \div 2

\* Gc2::sweep, the big values and then the pools: the states these sweeps
\* leave, and gc_num.freed as they leave it (writeback_stats then folds it
\* into live_bytes and zeroes it)
BigSwept(sweep_full) == sweep_bigvals(hdr, live, sweep_full)
PoolSwept(sweep_full) ==
  sweep_pools([SweepState(BigSwept(sweep_full).hdr) EXCEPT
                 !.live = BigSwept(sweep_full).live], sweep_full)
freed_bytes(sweep_full) == BigSwept(sweep_full).freed + PoolSwept(sweep_full).freed

\* collect: the statistics after the cycle (the decision, the interval update
\* and writeback_stats)
decide_sweep(full, st) ==
  LET sweep_full == sweep_decision(full, heuristics_of(st))
      recollect == sweep_full /\ full
  IN /\ interval' = next_interval(sweep_full, st)
     /\ last_long_collect_interval' =
          IF sweep_full THEN next_interval(sweep_full, st)
          ELSE last_long_collect_interval
     /\ prev_sweep_full' = IF sweep_full THEN 1 ELSE 0
     /\ pause' = IF recollect THEN pause ELSE pause + 1

\* collect from the sweep decision on: the decision and the interval update,
\* the sweep (weak references, big values, pools, remsets) and
\* writeback_stats.  `full` is collect's argument, first read here; st are
\* the byte statistics.
collect_sweep(full, st) ==
  /\ pc = "synced"
  /\ \E sweep_full \in {sweep_decision(full, heuristics_of(st))} :
     \E w \in {sweep_all_weakrefs([list |-> << >>, lists |-> weak_refs, fld |-> fld,
                                   fault |-> FALSE], hdr, 0)} :
     \E b \in {BigSwept(sweep_full)} :
     \E s \in {sweep_pools([SweepState(b.hdr) EXCEPT !.live = b.live], sweep_full)} :
        \/ /\ pc' = "idle" /\ collector' = 0
           /\ decide_sweep(full, st)
           /\ ~w.fault /\ ~s.fault
           /\ hdr' = sweep_remset_hdr(s.hdr, sweep_full)
           /\ live' = s.live
           /\ allocmap' = s.allocmap /\ meta' = s.meta
           /\ current_pg_count' = s.current_pg_count
           /\ region_pg_count' = region_pg_count
           /\ freelist' = s.freelist
           /\ bigrec' = b.bigrec /\ big_objects' = b.lists
           /\ big_objects_marked' = b.old
           /\ remset' = IF sweep_full THEN [t \in Threads |-> << >>] ELSE remset
           /\ rem_bindings' = IF sweep_full THEN [t \in Threads |-> << >>] ELSE rem_bindings
           /\ fld' = w.fld /\ weak_refs' = w.lists
           /\ UNCHANGED <<roots, fresh, last_remset, remset_nptr,
                          cacheVars, finVars, opVars>>
        \/ /\ pc' = "panic"
           /\ s.underflow \/ w.fault \/ s.fault
           /\ UNCHANGED <<collector, heapVars, fresh, pageVars, bigVars,
                          remVars, cacheVars, finVars, weak_refs, statVars, opVars>>

\* the statistics of a heap as small as the modelled ones: few bytes
\* allocated and promoted, and the remembered pointers of the remsets; the
\* host's heap-size guardrail may still ask for a full sweep
SmallHeapStats(heuristics) ==
  [estimate_freed |-> 0, actual_allocd |-> 0, nptr |-> SumNptr(remset_nptr, 0),
   promoted_bytes |-> 0, heap_check |-> heuristics]

\* collect from the sweep decision on, on a small heap
Sweep(full, heuristics) == collect_sweep(full, SmallHeapStats(heuristics))

\* the statistics of heaps of any size: byte counts on both sides of the
\* thresholds of the decision
StatInputs ==
  [estimate_freed : {5}, actual_allocd : {0, 9, 10},
   nptr : {0, DEFAULT_COLLECT_INTERVAL \div SIZE_OF_PTR},
   promoted_bytes : {0, DEFAULT_COLLECT_INTERVAL \div 2, DEFAULT_COLLECT_INTERVAL},
   heap_check : BOOLEAN]

\* --------------------------------------------------------- specifications
\* The mutator's pointer stores and dropped roots, at most MaxStores and
\* MaxDrops of them in a run.
Mutate ==
  \/ /\ nstore < MaxStores
     /\ \E t \in Threads, parent \in Accessible, child \in Accessible \cup {NULL} :
          Store(t, parent, child)
  \/ /\ ndrop < MaxDrops
     /\ \E o \in roots : DropRoot(o)

\* Pool allocation, stores and collections by any thread: many allocations,
\* few collections.
Next ==
  \/ /\ nalloc < MaxAllocs
     /\ \E t \in Threads, rooted \in BOOLEAN : PoolAlloc(t, rooted)
  \/ Mutate
  \/ /\ ncollect < MaxCollects
     /\ \E t \in Threads : CollectMark(t)
  \/ \E full \in BOOLEAN, heuristics \in BOOLEAN : Sweep(full, heuristics)

Spec == Init /\ [][Next]_vars

\* The same machine with big objects too, explored deeper in collections with
\* fewer allocations: objects live long enough to be promoted and to enter
\* the remembered set.
NextGen ==
  \/ /\ nalloc < MaxAllocsGen
     /\ \E t \in Threads, rooted \in BOOLEAN : PoolAlloc(t, rooted)
  \/ /\ nalloc < MaxAllocsGen
     /\ \E t \in Threads, rooted \in BOOLEAN : BigAlloc(t, rooted)
  \/ Mutate
  \/ /\ ncollect < MaxCollectsGen
     /\ \E t \in Threads : CollectMark(t)
  \/ \E full \in BOOLEAN, heuristics \in BOOLEAN : Sweep(full, heuristics)

SpecGen == Init /\ [][NextGen]_vars

\* Pool allocation and collections with the barrier entry point open to the
\* host: any thread may call neptune_queue_root on any object it can name.
NextAPI ==
  \/ /\ nalloc < MaxAllocsGen
     /\ \E t \in Threads, rooted \in BOOLEAN : PoolAlloc(t, rooted)
  \/ Mutate
  \/ /\ nstore < MaxQueueRoots
     /\ \E t \in Threads, root \in Accessible : QueueRoot(t, root)
  \/ /\ ncollect < MaxCollects
     /\ \E t \in Threads : CollectMark(t)
  \/ \E full \in BOOLEAN, heuristics \in BOOLEAN : Sweep(full, heuristics)

SpecAPI == Init /\ [][NextAPI]_vars

\* Allocation, finalizer registration, dropped roots and collections.
NextFin ==
  \/ /\ nalloc < MaxAllocsGen
     /\ \E t \in Threads, rooted \in BOOLEAN : PoolAlloc(t, rooted)
  \/ /\ nfin < MaxFin
     /\ \E t \in Threads, o \in Accessible, fin \in Accessible, native \in BOOLEAN :
          RegisterFinalizer(t, o, fin, native)
  \/ /\ ndrop < MaxDrops
     /\ \E o \in roots : DropRoot(o)
  \/ /\ ncollect < MaxCollects
     /\ \E t \in Threads : CollectMark(t)
  \/ \E full \in BOOLEAN, heuristics \in BOOLEAN : Sweep(full, heuristics)

SpecFin == Init /\ [][NextFin]_vars

\* Allocation, pointer stores, registration of managed finalizers, dropped
\* roots and collections: finalized objects that refer to other objects.
NextRes ==
  \/ /\ nalloc < MaxAllocsGen
     /\ \E t \in Threads, rooted \in BOOLEAN : PoolAlloc(t, rooted)
  \/ /\ nfin < MaxFinRes
     /\ \E t \in Threads, o \in Accessible, fin \in Accessible :
          RegisterFinalizer(t, o, fin, FALSE)
  \/ Mutate
  \/ /\ ncollect < MaxCollects
     /\ \E t \in Threads : CollectMark(t)
  \/ \E full \in BOOLEAN, heuristics \in BOOLEAN : Sweep(full, heuristics)

SpecRes == Init /\ [][NextRes]_vars

\* Allocation of objects and weak references, dropped roots and collections.
NextWeak ==
  \/ /\ nalloc < MaxAllocs
     /\ \E t \in Threads, rooted \in BOOLEAN : PoolAlloc(t, rooted)
  \/ /\ nalloc < MaxAllocs
     /\ \E t \in Threads, rooted \in BOOLEAN, value \in Accessible :
          NewWeakRef(t, rooted, value)
  \/ /\ ndrop < MaxDrops
     /\ \E o \in roots : DropRoot(o)
  \/ /\ ncollect < MaxCollects
     /\ \E t \in Threads : CollectMark(t)
  \/ \E full \in BOOLEAN, heuristics \in BOOLEAN : Sweep(full, heuristics)

SpecWeak == Init /\ [][NextWeak]_vars

\* Requests of every size: alloc of the sizes around the pool/big boundary
\* and of size 0, with collections in between
NextAlloc ==
  \/ /\ nalloc < MaxAllocsGen
     /\ \E t \in Threads, size \in Sizes, rooted \in BOOLEAN : Alloc(t, size, rooted)
  \/ /\ ncollect < MaxCollects
     /\ \E t \in Threads : CollectMark(t)
  \/ \E full \in BOOLEAN, heuristics \in BOOLEAN : Sweep(full, heuristics)

SpecAlloc == Init /\ [][NextAlloc]_vars

\* neptune_alloc_page: the host takes a page from the page manager for its
\* own use (it leaves the headers of the page's cells as they are)
AllocPage ==
  /\ pc = "idle"
  /\ \E p \in Pages : ~allocmap[p]
  /\ allocmap' = [allocmap EXCEPT ![alloc_page] = TRUE]
  /\ current_pg_count' = current_pg_count + 1
  /\ UNCHANGED <<cycleVars, heapVars, fresh, meta, region_pg_count, freelist, bigVars,
                 remVars, cacheVars, finVars, weak_refs, statVars, opVars>>

\* neptune_free_page on the address of page p: free_page finds the region
\* and the index, free_page_in_region asserts that the page's bit is set
FreePage(p) ==
  /\ pc = "idle"
  /\ IF allocmap[p]
     THEN LET s == free_page_in_region([allocmap |-> allocmap, meta |-> meta,
                                        current_pg_count |-> current_pg_count], p)
          IN /\ allocmap' = s.allocmap /\ meta' = s.meta
             /\ current_pg_count' = s.current_pg_count
             /\ UNCHANGED pc
     ELSE /\ pc' = "panic"
          /\ UNCHANGED <<allocmap, meta, current_pg_count>>
  /\ UNCHANGED <<collector, heapVars, fresh, region_pg_count, freelist, bigVars,
                 remVars, cacheVars, finVars, weak_refs, statVars, opVars>>

\* Pool allocation and collections with the page entry points open to the
\* host: it may take a page and give back any page at any time.
NextPage ==
  \/ /\ nalloc < MaxAllocsGen
     /\ \E t \in Threads, rooted \in BOOLEAN : PoolAlloc(t, rooted)
  \/ AllocPage
  \/ \E p \in Pages : FreePage(p)
  \/ /\ ncollect < MaxCollects
     /\ \E t \in Threads : CollectMark(t)
  \/ \E full \in BOOLEAN, heuristics \in BOOLEAN : Sweep(full, heuristics)

SpecPage == Init /\ [][NextPage]_vars

\* The process starts under any address-space limit: limits around every
\* power of two of the unit, and a failing getrlimit
Rlimits ==
  LET RECURSIVE halvings(_)
      halvings(c) == IF c = 0 THEN {0} ELSE {c} \cup halvings(c \div 2)
  IN {[ok |-> k, hi |-> h + d, lo |-> l] :
        k \in BOOLEAN, h \in halvings(2 * DEFAULT_REGION_PG_COUNT), d \in {0, 1},
        l \in {0, 2 * PAGE_SZ - 1}} \cup
     {[ok |-> TRUE, hi |-> h - 1, lo |-> 2 * PAGE_SZ - 1] :
        h \in halvings(2 * DEFAULT_REGION_PG_COUNT) \ {0}}

InitRlimit == InitGc /\ \E rl \in Rlimits : region_pg_count = PageMgr_new(rl)

SpecRlimit == InitRlimit /\ [][NextAlloc]_vars

\* Rooted pool objects that thread 0 allocates, stores by any thread into
\* objects and into bindings, each followed by its write barrier, and
\* collections by any thread
NextBind ==
  \/ /\ nalloc < MaxAllocs
     /\ PoolAlloc(0, TRUE)
  \/ /\ nstore < MaxStores
     /\ \E t \in Threads, parent \in Accessible, child \in Accessible : Store(t, parent, child)
  \/ /\ nstore < MaxStoresBind
     /\ \E t \in Threads, binding \in Accessible, value \in Accessible :
          StoreBinding(t, binding, value)
  \/ /\ ncollect < MaxCollectsGen
     /\ \E t \in Threads : CollectMark(t)
  \/ \E full \in BOOLEAN : Sweep(full, FALSE)

SpecBind == Init /\ [][NextBind]_vars

\* ------------------------------------------------ a mark phase, step by step
\* The mark phase over a heap of NMark one-field objects, one shared access
\* per step: the coordinator (agent 0) visits the roots and then drains the
\* mark stack in visit_mark_stack, the workers of the pool (agents 1 ..
\* NWorkers) run the scan tasks.  An agent's frames are the scan_obj calls it
\* is nested in, [v, bits] each; the depth of the innermost one is
\* base + Len(frames).

\* a scan that recurses at any depth
queue_the_root_never(d) == FALSE

\* Marking::scan_obj, "queue the root": the test of the depth d = _d + 1 of
\* the object it is about to scan
queue_the_root(d) == d >= MAX_MARK_DEPTH

\* a scope that does not wait for its tasks
joined_at_once == TRUE

\* the end of thread_pool.scoped: every task handed to the pool has finished
joined == jobs = << >> /\ \A w \in 1 .. NWorkers : agent[w].st = "idle"

\* Gc2::collect is entered on a heap: a chain 1 -> 2 -> ... -> last that ends
\* in NULL, in a pointerless object or loops back to 1, the object NMark
\* pointing into the chain, the first nold objects OLD; when rem, object 1 has
\* a pointer field and is an entry of the remset (MARKED since the barrier
\* queued it).  rs are the roots walk_roots will push, each at
\* MAX_MARK_DEPTH.
MarkBegin ==
  /\ pc = "idle" /\ vms \in {"idle", "done"}
  /\ \E last \in {1, MAX_MARK_DEPTH, NMark - 1}, end \in {"null", "cycle", "pointerless"},
        nold \in {0, 2}, rem \in BOOLEAN, rs \in {<< >>, <<1>>, <<1, NMark>>} :
       /\ rem => ~(last = 1 /\ end = "pointerless")
       /\ graph' = [o \in 1 .. NMark |->
                      IF o < last THEN [npointers |-> 1, field |-> o + 1]
                      ELSE IF o = last
                      THEN [npointers |-> IF end = "pointerless" THEN 0 ELSE 1,
                            field |-> IF end = "cycle" THEN 1 ELSE NULL]
                      ELSE IF o = NMark THEN [npointers |-> 1, field |-> 2]
                      ELSE [npointers |-> 0, field |-> NULL]]
       /\ header' = [o \in 1 .. NMark |->
                       IF rem /\ o = 1 THEN GC_MARKED
                       ELSE IF o <= nold THEN GC_OLD ELSE GC_CLEAN]
       /\ todo' = (IF rem THEN <<[v |-> 1, d |-> MAX_MARK_DEPTH, remset |-> TRUE]>> ELSE << >>)
                  \o [i \in 1 .. Len(rs) |->
                        [v |-> rs[i], d |-> MAX_MARK_DEPTH, remset |-> FALSE]]
  /\ mark_stack' = << >> /\ jobs' = << >>
  /\ vms' = "idle"
  /\ pc' = "premark"
  /\ agent' = [a \in 0 .. NWorkers |->
                 [st |-> "idle", frames |-> << >>, base |-> 0, e |-> NULL, tag |-> 0,
                  remset |-> << >>]]
  /\ UNCHANGED <<collector, heapVars, fresh, pageVars, bigVars, remVars, cache_remset,
                 cache_nptr, mark_caches, scanned_bytes, perm_scanned_bytes, finVars,
                 weak_refs, statVars, opVars>>

\* One step of Gc2::collect outside the marking, taken by the collecting
\* thread; pc is the phase collect is in.  "premark": premark recolours the
\* remset entries OLD_MARKED and clears remset, and walk_roots begins.
\* "mark", walk_roots has returned: the finalizer lists are swept and
\* mark_finalizers visits the objects fs of the lists from depth 0.
\* "finalize", mark_finalizers has returned: sync_caches appends the remset of
\* every agent's mark cache to the collecting thread's remset.  "synced": the
\* sweep, which clears the mark bits, and the return of collect.
CollectStep ==
  /\ agent[0].st = "idle"
  /\ \/ /\ pc = "premark"
        /\ pc' = "mark" /\ vms' = "roots"
        /\ header' = [o \in 1 .. NMark |->
                        IF \E i \in 1 .. Len(todo) : todo[i].remset /\ todo[i].v = o
                        THEN GC_OLD_MARKED ELSE header[o]]
        /\ remset' = [t \in Threads |-> << >>]
        /\ UNCHANGED <<todo, agent>>
     \/ /\ pc = "mark" /\ vms = "done"
        /\ pc' = "finalize" /\ vms' = "roots"
        /\ \E fs \in {<< >>, <<1>>, <<NMark, 1>>} :
             todo' = [i \in 1 .. Len(fs) |-> [v |-> fs[i], d |-> 0, remset |-> FALSE]]
        /\ UNCHANGED <<header, remset, agent>>
     \/ /\ pc = "finalize" /\ vms = "done"
        /\ pc' = "synced"
        /\ LET RECURSIVE append(_)
               append(a) == IF a > NWorkers THEN << >> ELSE agent[a].remset \o append(a + 1)
           IN remset' = [remset EXCEPT ![collector] = @ \o append(0)]
        /\ agent' = [a \in 0 .. NWorkers |-> [agent[a] EXCEPT !.remset = << >>]]
        /\ UNCHANGED <<header, todo, vms>>
     \/ /\ pc = "synced"
        /\ pc' = "idle" /\ vms' = "idle"
        /\ header' = [o \in 1 .. NMark |->
                        IF marked(header[o]) THEN sweep_bits(header[o], FALSE, FALSE)
                        ELSE GC_CLEAN]
        /\ UNCHANGED <<todo, remset, agent>>
  /\ UNCHANGED <<graph, mark_stack, jobs>>
  /\ UNCHANGED <<collector, heapVars, fresh, pageVars, bigVars, last_remset, remset_nptr,
                 rem_bindings, cache_remset, cache_nptr, mark_caches, scanned_bytes,
                 perm_scanned_bytes, finVars, weak_refs, statVars, opVars>>

\* One step of the coordinator: Marking::walk_roots / mark_object_list (the
\* next root: mark_remset calls scan_obj3 at MAX_MARK_DEPTH, which pushes an
\* entry that has pointers; push_root reads the header of a root), then
\* Marking::visit_mark_stack (the outer test, the inner test, pop and
\* scope.execute, the end of the scope, the final assert)
VisitMarkStack ==
  /\ agent[0].st = "idle"
  /\ \/ /\ vms = "roots" /\ todo # << >>
        /\ LET r == Head(todo) IN
           IF r.remset
           THEN /\ mark_stack' = IF graph[r.v].npointers = 0 THEN mark_stack
                                ELSE Append(mark_stack, r.v)
                /\ UNCHANGED agent
           ELSE /\ UNCHANGED mark_stack
                /\ agent' = IF marked(header[r.v]) THEN agent
                            ELSE [agent EXCEPT ![0].st = "swap", ![0].e = r.v,
                                               ![0].tag = header[r.v], ![0].base = r.d]
        /\ todo' = Tail(todo)
        /\ UNCHANGED <<vms, jobs>>
     \/ /\ vms = "roots" /\ todo = << >>
        /\ vms' = "outer"
        /\ UNCHANGED <<mark_stack, jobs, todo, agent>>
     \/ /\ vms = "outer"
        /\ vms' = IF mark_stack # << >> THEN "inner" ELSE "assert"
        /\ UNCHANGED <<mark_stack, jobs, todo, agent>>
     \/ /\ vms = "inner"
        /\ vms' = IF mark_stack # << >> THEN "pop" ELSE "join"
        /\ UNCHANGED <<mark_stack, jobs, todo, agent>>
     \/ /\ vms = "pop"
        /\ IF mark_stack = << >>
           THEN vms' = "panic" /\ UNCHANGED <<mark_stack, jobs>>
           ELSE /\ mark_stack' = Front(mark_stack)
                /\ jobs' = Append(jobs, [v |-> Last(mark_stack),
                                         bits |-> header[Last(mark_stack)]])
                /\ vms' = "inner"
        /\ UNCHANGED <<todo, agent>>
     \/ /\ vms = "join" /\ joined
        /\ vms' = "outer"
        /\ UNCHANGED <<mark_stack, jobs, todo, agent>>
     \/ /\ vms = "assert"
        /\ vms' = IF mark_stack = << >> THEN "done" ELSE "panic"
        /\ UNCHANGED <<mark_stack, jobs, todo, agent>>
  /\ UNCHANGED <<graph, header>>
  /\ UNCHANGED <<pc, collector, heapVars, fresh, pageVars, bigVars, remVars, cache_remset,
                 cache_nptr, mark_caches, scanned_bytes, perm_scanned_bytes, finVars,
                 weak_refs, statVars, opVars>>

\* One step of agent a inside scan_obj / push_root: a worker starts the next
\* scan task (scan_obj3 at depth 0); scan_obj reads the field of the innermost
\* object and push_root reads the header of the child; setmark_tag swaps the
\* header and the winner enters scan_obj for the child, which returns at
\* once for a pointerless type (and for a weak reference) and at depth
\* MAX_MARK_DEPTH or more only pushes it; the push on the mark stack.  When
\* the innermost call returns, every enclosing scan_obj has no field left: an
\* OLD_MARKED object whose child is young goes to the remset of the agent's
\* mark cache, and the agent is idle again.
ScanStep(a) ==
  LET ag == agent[a]
      depth == ag.base + Len(ag.frames)
      young(bits) == IF old(bits) THEN 0 ELSE 1
      RECURSIVE unwind(_, _, _)
      unwind(i, ret, rs) ==
        IF i = 0 THEN rs
        ELSE unwind(i - 1, young(ag.frames[i].bits),
                    IF ag.frames[i].bits = GC_OLD_MARKED /\ ret > 0
                    THEN Append(rs, ag.frames[i].v) ELSE rs)
      returned(ret) == [ag EXCEPT !.st = "idle", !.frames = << >>, !.base = 0, !.e = NULL,
                                  !.tag = 0, !.remset = unwind(Len(ag.frames), ret, ag.remset)]
  IN /\ vms \in {"roots", "outer", "inner", "pop", "join"}
     /\ \/ /\ ag.st = "idle" /\ a # 0 /\ jobs # << >>
           /\ jobs' = Tail(jobs)
           /\ agent' = [agent EXCEPT ![a].st = "scan",
                                     ![a].frames = <<[v |-> Head(jobs).v,
                                                      bits |-> Head(jobs).bits]>>]
           /\ UNCHANGED <<header, mark_stack>>
        \/ /\ ag.st = "scan"
           /\ LET c == graph[Last(ag.frames).v].field IN
              agent' = [agent EXCEPT ![a] =
                          IF c = NULL THEN returned(0)
                          ELSE IF marked(header[c]) THEN returned(young(header[c]))
                          ELSE [ag EXCEPT !.st = "swap", !.e = c, !.tag = header[c]]]
           /\ UNCHANGED <<header, mark_stack, jobs>>
        \/ /\ ag.st = "swap"
           /\ LET r == setmark_tag(ag.tag, GC_MARKED, 0) IN
              /\ header' = [header EXCEPT ![ag.e] = r.tag]
              /\ agent' = [agent EXCEPT ![a] =
                             IF marked(header[ag.e]) \/ graph[ag.e].npointers = 0
                             THEN returned(young(r.bits))
                             ELSE IF queue_the_root(depth + 1)
                             THEN [ag EXCEPT !.st = "push", !.tag = r.bits]
                             ELSE [ag EXCEPT !.st = "scan", !.e = NULL, !.tag = 0,
                                             !.frames = Append(@, [v |-> ag.e,
                                                                   bits |-> r.bits])]]
           /\ UNCHANGED <<mark_stack, jobs>>
        \/ /\ ag.st = "push"
           /\ mark_stack' = Append(mark_stack, ag.e)
           /\ agent' = [agent EXCEPT ![a] = returned(young(ag.tag))]
           /\ UNCHANGED <<header, jobs>>
     /\ UNCHANGED <<graph, todo, vms>>
     /\ UNCHANGED <<pc, collector, heapVars, fresh, pageVars, bigVars, remVars, cache_remset,
                    cache_nptr, mark_caches, scanned_bytes, perm_scanned_bytes, finVars,
                    weak_refs, statVars, opVars>>

\* Collections of every heap shape, the agents interleaved in any order
NextMark ==
  \/ MarkBegin
  \/ CollectStep
  \/ VisitMarkStack
  \/ \E a \in 0 .. NWorkers : ScanStep(a)

SpecMark == Init /\ [][NextMark]_vars

\* The same with threads that keep running: the coordinator and every worker
\* take their next step eventually
SpecMarkFair ==
  /\ Init /\ [][NextMark]_vars
  /\ WF_vars(CollectStep)
  /\ WF_vars(VisitMarkStack)
  /\ \A a \in 0 .. NWorkers : WF_vars(ScanStep(a))

\* Collections of a heap of any size: the byte statistics of each cycle are
\* drawn from StatInputs
NextStat ==
  \/ /\ nalloc < MaxAllocsStat
     /\ \E t \in Threads, rooted \in BOOLEAN : PoolAlloc(t, rooted)
  \/ /\ ncollect < MaxCollectsStat
     /\ \E t \in Threads : CollectMark(t)
  \/ \E full \in BOOLEAN, st \in StatInputs : collect_sweep(full, st)

SpecStat == Init /\ [][NextStat]_vars

\* A mutator that goes quiet: allocations, stores and dropped roots stop once
\* QuietAfter collections have started, and from then on the host asks for
\* full collections only, one right after the other
NextFull ==
  \/ /\ nalloc < MaxAllocsGen /\ ncollect < QuietAfter
     /\ \E t \in Threads, rooted \in BOOLEAN : PoolAlloc(t, rooted)
  \/ /\ nalloc < MaxAllocsGen /\ ncollect < QuietAfter
     /\ \E t \in Threads, rooted \in BOOLEAN : BigAlloc(t, rooted)
  \/ /\ ncollect < QuietAfter
     /\ Mutate
  \/ /\ ncollect < MaxCollectsFull
     /\ \E t \in Threads : CollectMark(t)
  \/ \E full \in BOOLEAN, heuristics \in BOOLEAN :
       /\ ncollect >= QuietAfter => full
       /\ Sweep(full, heuristics)

SpecFull == Init /\ [][NextFull]_vars

\* Allocation, dropped roots, collections, and a host that marks values
\* outside the collections (jl_gc_setmark)
NextConc ==
  \/ /\ nalloc < MaxAllocsGen
     /\ \E t \in Threads, rooted \in BOOLEAN : PoolAlloc(t, rooted)
  \/ /\ nalloc < MaxAllocsGen
     /\ \E t \in Threads, rooted \in BOOLEAN : BigAlloc(t, rooted)
  \/ /\ ndrop < MaxDrops
     /\ \E o \in roots : DropRoot(o)
  \/ \E t \in Threads, v \in Accessible : MarkConcurrently(t, v)
  \/ /\ ncollect < MaxCollects
     /\ \E t \in Threads : CollectMark(t)
  \/ \E full \in BOOLEAN, heuristics \in BOOLEAN : Sweep(full, heuristics)

SpecConc == Init /\ [][NextConc]_vars

\* ------------------------------------------------------------------ claims
\* the objects the collector must keep: reachable from the roots, allocated
Reachable == ReachFrom(roots) \cap live

\* C1: no object that is reachable from the roots when a cycle starts is
\* pushed on a pool free list or deallocated by that cycle's sweep (roots and
\* fields do not change during a cycle, so the sweep step sees the same
\* reachable set as the start of the cycle).
C1_ReachableSurvivesSweep ==
  [][(pc = "synced" /\ pc' = "idle") => Reachable \subseteq live']_vars

\* the age bit of a pool cell
AgeBit(o) == meta[PageOf(o)].ages[IndexOf(o) + 1]

\* C2: an old object O that the barrier queued is OLD_MARKED again after the
\* next cycle's premark and is re-scanned from last_remset: the object Y
\* stored into it is marked at the end of the mark phase and the sweep that
\* follows does not free it, whatever else refers to O or Y.
C2_RemsetChildSurvives ==
  [][(pc = "synced" /\ pc' = "idle") =>
       \A t \in Threads : \A i \in 1 .. Len(last_remset[t]) :
         LET O == last_remset[t][i]
             Y == fld[O]
         IN /\ tag(hdr[O]) = GC_OLD_MARKED
            /\ Y # NULL => (marked(hdr[Y]) /\ (Y \in live => Y \in live'))]_vars

\* C2 witness: the mark phase has ended with a queued O whose child Y is a
\* young object allocated since the previous cycle, and neither O nor Y is
\* reachable from a root
C2_Witness ==
  /\ pc = "synced"
  /\ \E t \in Threads : \E i \in 1 .. Len(last_remset[t]) :
       LET O == last_remset[t][i]
           Y == fld[O]
       IN /\ Y # NULL /\ Y \in live /\ Y \in PoolCells
          /\ allocmap[PageOf(Y)] /\ ~AgeBit(Y)
          /\ O \notin ReachFrom(roots) /\ Y \notin ReachFrom(roots)
          /\ \A p \in Obj \ {O} : fld[p] # Y

\* C3: the write barrier on a value (queue_root) acts only on an OLD_MARKED
\* parent: then the parent becomes MARKED, is appended once to the calling
\* thread's remset and that thread's remset_nptr grows by one; on a parent of
\* any other colour the headers, the remsets and remset_nptr do not change.
C3_BarrierActsOnlyOnOldMarked ==
  [][\A t \in Threads, root \in Obj :
       QueueRoot(t, root) =>
         IF tag(hdr[root]) = GC_OLD_MARKED
         THEN /\ hdr' = [hdr EXCEPT ![root] = set_tag(@, GC_MARKED)]
              /\ remset' = [remset EXCEPT ![t] = Append(@, root)]
              /\ remset_nptr' = [remset_nptr EXCEPT ![t] = @ + 1]
         ELSE UNCHANGED <<hdr, remset, remset_nptr>>]_vars

\* a cycle ends: the step of collect that sweeps and returns
CycleEnds == pc = "synced" /\ pc' = "idle"

Swept(o) ==
  IF o \in PoolCells THEN allocmap[PageOf(o)]
  ELSE \/ \E t \in Threads : o \in Range(big_objects[t])
       \/ o \in Range(big_objects_marked)

C5_OldImpliesAged ==
  [][CycleEnds =>
       \A o \in live' \cap PoolCells :
         old(hdr'[o]) => (meta'[PageOf(o)].ages # << >> /\ AgeBit(o)')]_vars

\* a page holds a cell whose colour is MARKED or OLD_MARKED
HasMarkedCell(p) == \E i \in 0 .. (CellsPerPage - 1) : marked(hdr[CellAt(p, i)])

\* C6: for every allocated pool page, after the mark phase and after the
\* sweep of a cycle, has_marked is true exactly when the page has a cell
\* whose colour is MARKED or OLD_MARKED.
C6_HasMarkedExact ==
  [][(pc' = "synced" \/ CycleEnds) =>
       \A p \in Pages : allocmap'[p] => (meta'[p].has_marked <=> HasMarkedCell(p)')]_vars

\* C7: no cell on a pool free list is a live object, and every cell on a
\* pool free list has colour CLEAN and a zero type tag.
C7_FreeListCellsClean ==
  \A t \in Threads : \A k \in Pools : \A i \in 1 .. Len(freelist[t][k]) :
    LET c == freelist[t][k][i]
    IN c \notin live /\ tag(hdr[c]) = GC_CLEAN /\ type_tag(hdr[c]) = 0

\* C8: every big-object record that is in a list is stored at index slot of
\* the list its tid names (a thread's list, or the shared old-marked list
\* for tid -1).
C8_BigSlotIsIndex ==
  /\ \A t \in Threads : \A i \in 1 .. Len(big_objects[t]) :
       LET r == bigrec[big_objects[t][i]]
       IN r.in_list /\ r.tid = t /\ r.slot = i - 1
  /\ \A i \in 1 .. Len(big_objects_marked) :
       LET r == bigrec[big_objects_marked[i]]
       IN r.in_list /\ r.tid = -1 /\ r.slot = i - 1

\* the pairs kept in a flat list, and in the three lists
PairsOf(l) == {<<l[i], l[i + 1]>> : i \in {j \in 1 .. Len(l) : j % 2 = 1}}
Kept(fs, flm, tf) == UNION {PairsOf(fs[t]) : t \in Threads} \cup PairsOf(flm) \cup PairsOf(tf)

RECURSIVE OccThreads(_, _, _, _)
\* occurrences of a pair in the lists of the threads t, t+1, ...
OccThreads(fs, v0, fin, t) ==
  IF t >= NThreads THEN 0 ELSE Occ(fs[t], v0, fin) + OccThreads(fs, v0, fin, t + 1)

\* in how many places of the three lists a pair is kept (to_finalize keeps the
\* object pointer of a managed pair, which carries no tag)
InLists(k, fs, flm, tf) ==
  OccThreads(fs, k[1], k[2], 0) + Occ(flm, k[1], k[2]) + Occ(tf, clear_tag(k[1], 1), k[2])

\* how many times the action of a pair has been run
Ran(k, cl) == Cardinality({i \in 1 .. Len(cl) : cl[i] = <<k[2], clear_tag(k[1], 1)>>})

\* C9: between the finalizer processing steps of the cycles, each registered
\* pair whose action has not run is in exactly one of the three lists: no
\* step puts a pair in two places, and a step that removes a pair from the
\* lists is the step that runs its action.
C9_PairInExactlyOneList ==
  [][\A k \in Kept(finalizers, finalizer_list_marked, to_finalize)
              \cup Kept(finalizers, finalizer_list_marked, to_finalize)' :
       /\ InLists(k, finalizers, finalizer_list_marked, to_finalize)' <= 1
       /\ nfin' = nfin =>
            InLists(k, finalizers, finalizer_list_marked, to_finalize)' + Ran(k, called)'
              = InLists(k, finalizers, finalizer_list_marked, to_finalize) + Ran(k, called)]_vars

\* C9 witness: a cycle has processed the finalizers and pairs are now kept in
\* finalizer_list_marked and in to_finalize
C9_Witness ==
  /\ pc = "synced"
  /\ finalizer_list_marked # << >> /\ to_finalize # << >>

\* C10: no pointer kept in to_finalize has its low bit set, whatever mix of
\* native and managed finalizers was registered.
C10_ToFinalizeUntagged ==
  \A i \in 1 .. Len(to_finalize) : to_finalize[i] % 2 = 0

\* C10 witness: a native and a managed finalizer were registered, the native
\* one has been called and the managed one is scheduled
C10_Witness ==
  /\ to_finalize # << >> /\ called # << >>

\* the headers as the mark walk of a cycle run by thread t leaves them
\* (premark of every thread, then walk_roots), before the finalizer lists
\* are processed
MarkWalk(t) == walk_roots(MarkState(premark_hdr, t), remset).hdr

\* the pairs of a flat list that carry the native tag
NativePairs(l) == {k \in PairsOf(l) : k[1] % 2 = 1}

\* C11: when a cycle's mark walk leaves unmarked an object O that has a
\* registered native finalizer F, the finalizer processing of that cycle
\* (which comes before the sweep) calls F once with the untagged address of
\* O while O is still allocated, and removes the pair from the lists; no F
\* is ever called twice for the same O.
C11_NativeFinalizerRunsOnce ==
  [][/\ \A i \in 1 .. Len(called') : Ran(<<called'[i][2], called'[i][1]>>, called') = 1
     /\ (pc = "idle" /\ pc' = "synced") =>
          \A k \in NativePairs(finalizer_list_marked)
                    \cup UNION {NativePairs(finalizers[t]) : t \in Threads} :
            ~marked(MarkWalk(collector')[ObjOf(clear_tag(k[1], 1))]) =>
              /\ Ran(k, called') = Ran(k, called) + 1
              /\ ObjOf(clear_tag(k[1], 1)) \in live
              /\ InLists(k, finalizers, finalizer_list_marked, to_finalize)' = 0]_vars

\* C11 witness: the mark phase of a cycle has called the native finalizer of
\* an unreachable object, and the object has not been swept yet
C11_Witness ==
  /\ pc = "synced" /\ called # << >>
  /\ ObjOf(Last(called)[2]) \in live \ ReachFrom(roots)
  /\ ~marked(hdr[ObjOf(Last(called)[2])])

\* the objects and actions of the pairs scheduled in to_finalize
Pending == {ObjOf(to_finalize[i]) : i \in 1 .. Len(to_finalize)}

CountIn(l, x) == Cardinality({i \in 1 .. Len(l) : l[i] = x})

\* C13: the sweep of a cycle first processes every thread's weak-ref list
\* against the mark bits as the mark phase left them: an entry whose weak-ref
\* object is unmarked is removed from the list, an entry whose object is
\* marked stays; the value slot of a marked weak reference becomes the
\* nothing sentinel when its referent is unmarked and is unchanged when its
\* referent is marked.
C13_WeakRefSweep ==
  [][CycleEnds =>
       \A t \in Threads :
         /\ \A x \in Range(weak_refs[t]) \cup Range(weak_refs'[t]) :
              CountIn(weak_refs'[t], x) = IF marked(hdr[x]) THEN CountIn(weak_refs[t], x) ELSE 0
         /\ \A x \in Range(weak_refs[t]) :
              marked(hdr[x]) =>
                fld'[x] = IF fld[x] # jl_nothing /\ marked(hdr[fld[x]])
                          THEN fld[x] ELSE jl_nothing]_vars

\* C13 witness: a sweep is about to process the lists, which hold a marked
\* weak reference to an unmarked object and an unmarked weak reference
C13_Witness ==
  /\ pc = "synced"
  /\ \E t \in Threads, u \in Threads :
       /\ \E x \in Range(weak_refs[t]) :
            marked(hdr[x]) /\ fld[x] # jl_nothing /\ ~marked(hdr[fld[x]])
       /\ \E y \in Range(weak_refs[u]) : ~marked(hdr[y])

\* the largest size class of the table
LargestClass == GC_SIZE_CLASSES[GC_N_POOLS]

\* the object an allocation step hands out
Allocated == live' \ live

\* C14 as stated: alloc(size) takes the big-object path if and only if
\* size + header > 2032 + word size, and every request of at most 2032
\* payload bytes is served from a pool.
C14_BigIffAboveLargestClass ==
  [][\A t \in Threads, size \in Sizes, rooted \in BOOLEAN :
       Alloc(t, size, rooted) /\ pc' = "idle" =>
         /\ (Allocated \subseteq BigVals) <=>
              (size + SIZE_OF_JLTAGGEDVALUE > LargestClass + SIZE_OF_JLTAGGEDVALUE)
         /\ size <= LargestClass => Allocated \subseteq PoolCells]_vars

\* C14 (amended): alloc(size) takes the big-object path if and only if
\* size + header > 2032, i.e. the payload exceeds GC_MAX_SZCLASS = 2024 bytes;
\* every request of at most 2024 payload bytes pops a cell from the free list
\* of the least size class that holds the payload (a page added for it is laid
\* out in that class), and the payloads 2025..2032 are big objects although
\* the table has a class of 2032 bytes.
C14_BigIffAboveMaxSzclass ==
  [][\A t \in Threads, size \in Sizes, rooted \in BOOLEAN :
       Alloc(t, size, rooted) /\ pc' = "idle" =>
         /\ (big_objects' # big_objects) <=> (size + SIZE_OF_JLTAGGEDVALUE > LargestClass)
         /\ big_objects' # big_objects =>
              /\ freelist' = freelist
              /\ \E v \in BigVals \ live :
                   /\ big_objects' = [big_objects EXCEPT ![t] = Append(@, v)]
                   /\ live' = live \cup {v}
                   /\ bigrec'[v].sz = size_bits(size + SIZE_OF_JLTAGGEDVALUE)
         /\ big_objects' = big_objects =>
              LET k == find_pool(size)
              IN /\ size <= GC_MAX_SZCLASS /\ k \in Pools
                 /\ size <= GC_SIZE_CLASSES[k + 1]
                 /\ \A j \in 1 .. GC_N_POOLS : size <= GC_SIZE_CLASSES[j] => k + 1 <= j
                 /\ \A u \in Threads, j \in Pools :
                      (u # t \/ j # k) => freelist'[u][j] = freelist[u][j]
                 /\ IF freelist[t][k] # << >>
                    THEN /\ freelist'[t][k] = Front(freelist[t][k])
                         /\ Last(freelist[t][k]) \in live'
                    ELSE \E p \in Pages :
                           /\ ~allocmap[p] /\ allocmap'[p]
                           /\ meta'[p].pool_n = k
                           /\ meta'[p].osize = GC_SIZE_CLASSES[k + 1]
                           /\ Allocated \subseteq {c \in PoolCells : PageOf(c) = p}]_vars

\* C14 witness: a request of 2025 payload bytes was served as a big object
\* (its record holds 2033 with the two low bits cleared) and a request of
\* 2024 payload bytes from the pool of class 2032
C14_Witness ==
  /\ \E b \in live \cap BigVals :
       bigrec[b].sz = size_bits(GC_MAX_SZCLASS + 1 + SIZE_OF_JLTAGGEDVALUE)
  /\ \E v \in live \cap PoolCells :
       allocmap[PageOf(v)] /\ meta[PageOf(v)].osize = LargestClass

\* C15: an allocation request of size 0 is rejected: it hands out no cell
\* and leaves the pools, the free lists, the page counters and the
\* big-object lists as they were.
C15_ZeroSizeRejected ==
  [][\A t \in Threads, rooted \in BOOLEAN :
       Alloc(t, 0, rooted) =>
         /\ Allocated = {}
         /\ UNCHANGED <<hdr, pageVars, bigVars>>]_vars

\* C16 as stated: the sweep of a cycle is full if and only if the caller
\* requested full, or large_frontier holds, or ((not_freed_enough or promoted
\* >= interval) and (promoted >= DEFAULT_COLLECT_INTERVAL or the previous
\* sweep was full)), or the heap-size guardrail fires, with not_freed_enough
\* = estimate_freed < 0.7 x actual_allocd; every collect(full=true) sweeps
\* fully.
C16_FullIffRequestedOrHeuristics ==
  [][\A full \in BOOLEAN, st \in StatInputs :
       CycleEnds /\ decide_sweep(full, st) =>
         ((prev_sweep_full' = 1) <=>
            \/ full
            \/ st.nptr * SIZE_OF_PTR >= DEFAULT_COLLECT_INTERVAL
            \/ /\ \/ 10 * st.estimate_freed < 7 * st.actual_allocd
                  \/ st.promoted_bytes >= interval
               /\ st.promoted_bytes >= DEFAULT_COLLECT_INTERVAL \/ prev_sweep_full # 0
            \/ st.heap_check)]_vars

\* C16 (amended): the sweep of a cycle is full if and only if gc_num.pause > 1
\* (two earlier cycles have ended without asking for a recollection) and
\* the caller requested full, or large_frontier holds, or ((not_freed_enough
\* or promoted >= interval) and (promoted >= DEFAULT_COLLECT_INTERVAL or the
\* previous sweep was full)), or the heap-size guardrail fires, where
\* not_freed_enough is estimate_freed < 7 x floor(actual_allocd / 10); a
\* collect(full=true) while pause <= 1 sweeps quickly and returns no
\* recollect request.
C16_FullIffPauseAndRequestedOrHeuristics ==
  [][\A full \in BOOLEAN, st \in StatInputs :
       CycleEnds /\ decide_sweep(full, st) =>
         /\ (prev_sweep_full' = 1) <=>
              /\ pause > 1
              /\ \/ full
                 \/ st.nptr * SIZE_OF_PTR >= DEFAULT_COLLECT_INTERVAL
                 \/ /\ \/ st.estimate_freed < 7 * (st.actual_allocd \div 10)
                       \/ st.promoted_bytes >= interval
                    /\ st.promoted_bytes >= DEFAULT_COLLECT_INTERVAL \/ prev_sweep_full # 0
                 \/ st.heap_check
         /\ prev_sweep_full' \in {0, 1}
         /\ pause' = IF prev_sweep_full' = 1 /\ full THEN pause ELSE pause + 1]_vars

\* C16 witness: a cycle ran a full sweep right after a cycle that ran a full
\* sweep on request (pause did not advance), and earlier cycles swept quickly
C16_Witness ==
  /\ pc = "idle" /\ prev_sweep_full = 1
  /\ pause > 1 /\ ncollect > pause + 1

\* C17 as stated: after every cycle that performs a full sweep the target
\* interval lies in [DEFAULT_COLLECT_INTERVAL, MAX_COLLECT_INTERVAL]; after
\* every cycle that does not, it equals DEFAULT_COLLECT_INTERVAL / 2.
C17_IntervalInRange ==
  [][CycleEnds =>
       IF prev_sweep_full' = 1
       THEN DEFAULT_COLLECT_INTERVAL <= interval' /\ interval' <= MAX_COLLECT_INTERVAL
       ELSE interval' = DEFAULT_COLLECT_INTERVAL \div 2]_vars

\* C17 (amended): after a cycle that does not sweep fully the interval is
\* DEFAULT_COLLECT_INTERVAL / 2; after a full sweep of a cycle that found
\* not_freed_enough or large_frontier it lies in [DEFAULT_COLLECT_INTERVAL,
\* MAX_COLLECT_INTERVAL]; any other full sweep leaves the interval as it was
\* (DEFAULT_COLLECT_INTERVAL / 2 when the cycle before swept quickly).  The
\* interval never exceeds MAX_COLLECT_INTERVAL, and a full sweep records it
\* in last_long_collect_interval.
C17_IntervalAfterCycle ==
  [][\A full \in BOOLEAN, st \in StatInputs :
       CycleEnds /\ decide_sweep(full, st) =>
         LET grows == \/ st.estimate_freed < 7 * (st.actual_allocd \div 10)
                      \/ st.nptr * SIZE_OF_PTR >= DEFAULT_COLLECT_INTERVAL
         IN /\ prev_sweep_full' = 0 => interval' = DEFAULT_COLLECT_INTERVAL \div 2
            /\ prev_sweep_full' = 1 /\ grows =>
                 DEFAULT_COLLECT_INTERVAL <= interval' /\ interval' <= MAX_COLLECT_INTERVAL
            /\ prev_sweep_full' = 1 /\ ~grows => interval' = interval
            /\ interval' <= MAX_COLLECT_INTERVAL
            /\ prev_sweep_full' = 1 => last_long_collect_interval' = interval'
            /\ prev_sweep_full' = 0 => UNCHANGED last_long_collect_interval]_vars

\* C17 witness: full sweeps have grown the interval past 2/5 of the maximum,
\* where it stops growing
C17_Witness ==
  /\ pc = "idle" /\ prev_sweep_full = 1
  /\ interval > 2 * (MAX_COLLECT_INTERVAL \div 5)

\* the pool objects a cycle releases
ReleasedCells == (live \ live') \cap PoolCells

RECURSIVE ReleasedBytes(_, _)
\* the size classes of the released pool objects of the pages p, p+1, ...,
\* summed (rel is the set of released objects)
ReleasedBytes(rel, p) ==
  IF p >= NPages THEN 0
  ELSE meta[p].osize * Cardinality({o \in rel : PageOf(o) = p}) + ReleasedBytes(rel, p + 1)

\* C19: the pool sweep of a cycle adds to gc_num.freed exactly the size class
\* of every pool object the cycle releases (U unreferenced objects of one
\* class: U times the class), and the subtraction nfree - meta.nfree that
\* computes it never goes below zero.
C19_FreedIsReleasedTimesClass ==
  [][CycleEnds =>
       LET s == PoolSwept(prev_sweep_full' = 1)
       IN /\ ~s.underflow
          /\ s.freed = ReleasedBytes(ReleasedCells, 0)]_vars

\* C20 as stated: a cycle run with an empty root set, on a heap that holds
\* only unreachable objects of any colour, frees every object and returns
\* every allocated pool page: current_pg_count is 0 afterwards.
C20_EmptyRootsFreeAll ==
  [][CycleEnds /\ roots = {} =>
       /\ live' = {}
       /\ current_pg_count' = 0
       /\ \A p \in Pages : ~allocmap'[p]]_vars

C21_PromotionThenQuickSweepKeepsOld ==
  [][/\ (pc = "idle" /\ pc' = "synced") =>
          \A o \in fresh \cap PoolCells :
            ~(meta[PageOf(o)].ages # << >> /\ AgeBit(o))
     /\ CycleEnds =>
          \A o \in live \cap PoolCells :
            LET aged == meta[PageOf(o)].ages # << >> /\ AgeBit(o)
            IN /\ (o \in Reachable /\ tag(hdr[o]) = GC_MARKED /\ ~aged) =>
                    /\ o \in live' /\ tag(hdr'[o]) = GC_CLEAN
                    /\ meta'[PageOf(o)].ages # << >> /\ AgeBit(o)'
               /\ (o \in Reachable /\ tag(hdr[o]) = GC_MARKED /\ aged) =>
                    o \in live' /\ tag(hdr'[o]) = GC_OLD
               /\ (prev_sweep_full' = 0 /\ tag(hdr[o]) = GC_OLD /\ o \notin Reachable) =>
                    o \in live' /\ tag(hdr'[o]) = GC_OLD]_vars

\* C22 as stated: in a collect(true) every unmarked big object is freed and
\* removed from its list, every marked big object stays in the list of the
\* thread that allocated it, and the survivors of their first collection have
\* colour OLD and age 1.
C22_BigSurvivorsOld ==
  [][CycleEnds /\ decide_sweep(TRUE, SmallHeapStats(TRUE)) =>
       \A t \in Threads : \A b \in Range(big_objects[t]) :
         IF marked(hdr[b])
         THEN /\ b \in live' /\ CountIn(big_objects'[t], b) = 1
              /\ bigrec[b].age = 0 => (tag(hdr'[b]) = GC_OLD /\ bigrec'[b].age = 1)
         ELSE /\ b \notin live'
              /\ \A u \in Threads : b \notin Range(big_objects'[u])]_vars

\* C22 (amended): in every cycle, whatever sweep it runs, every unmarked big
\* object is freed and removed from its list and every marked big object
\* stays, once, in the list of the thread that allocated it, whichever thread
\* runs the cycle.  A survivor of its first collection (MARKED, age 0) is
\* CLEAN with age 1 afterwards; a MARKED survivor of age 1 becomes OLD; an
\* OLD_MARKED one becomes OLD in a full sweep and stays OLD_MARKED in a quick
\* one, where the entries of the remembered set are then set to MARKED.
C22_BigSurvivorsCleanThenOld ==
  [][CycleEnds =>
       \A t \in Threads : \A b \in Range(big_objects[t]) :
         IF marked(hdr[b])
         THEN /\ b \in live' /\ CountIn(big_objects'[t], b) = 1
              /\ \A u \in Threads \ {t} : b \notin Range(big_objects'[u])
              /\ bigrec'[b].tid = bigrec[b].tid
              /\ bigrec'[b].age = IF tag(hdr[b]) = GC_MARKED /\ bigrec[b].age = 0
                                  THEN 1 ELSE bigrec[b].age
              /\ tag(hdr'[b]) =
                   IF prev_sweep_full' = 0 /\ \E u \in Threads : b \in Range(remset[u])
                   THEN GC_MARKED
                   ELSE IF tag(hdr[b]) = GC_MARKED
                   THEN (IF bigrec[b].age = 0 THEN GC_CLEAN ELSE GC_OLD)
                   ELSE (IF prev_sweep_full' = 1 THEN GC_OLD ELSE GC_OLD_MARKED)
         ELSE /\ b \notin live'
              /\ \A u \in Threads : b \notin Range(big_objects'[u])]_vars

\* C22 witness: a cycle that can sweep fully has marked a big object of age 0
\* that another thread allocated, and an unmarked big object is in a list
C22_Witness ==
  /\ pc = "synced" /\ pause > 1
  /\ \E t \in Threads \ {collector} : \E b \in Range(big_objects[t]) :
       marked(hdr[b]) /\ bigrec[b].age = 0 /\ bigrec[b].tid = t
  /\ \E u \in Threads : \E c \in Range(big_objects[u]) : ~marked(hdr[c])

\* C23 as stated: mark_concurrent(gc, value) performs only the atomic update
\* of the header of value: it changes no mark-cache byte counter, no page
\* metadata, no big-object list and no remset, and it is a no-op when value
\* is already marked.
C23_MarkConcurrentHeaderOnly ==
  [][\A t \in Threads, v \in Obj :
       MarkConcurrently(t, v) =>
         /\ \A o \in Obj \ {v} : hdr'[o] = hdr[o]
         /\ marked(hdr[v]) => hdr'[v] = hdr[v]
         /\ UNCHANGED <<pc, collector, fld, live, roots, fresh, pageVars, bigVars,
                        remVars, cacheVars, finVars, weak_refs, statVars, opVars>>]_vars

\* C23 (amended): mark_concurrent(gc, value) is a no-op when value is already
\* marked.  Otherwise it swaps the header of value to MARKED (OLD_MARKED when
\* the old bit is set) and then, for a pool cell, adds the size class of the
\* cell's page to a byte counter of the calling thread's mark cache:
\* scanned_bytes for MARKED, perm_scanned_bytes for OLD_MARKED, where it also
\* increments nold of the page.  For a big object the call panics after the
\* header update.  No other header, no other field of the page metadata, no
\* free list, no big-object list and no remset changes.
C23_MarkConcurrentHeaderAndCounters ==
  [][\A t \in Threads, v \in Obj :
       MarkConcurrently(t, v) =>
         IF marked(hdr[v]) THEN UNCHANGED vars
         ELSE LET mode == IF old(hdr[v]) THEN GC_OLD_MARKED ELSE GC_MARKED
                  sz == meta[PageOf(v)].osize
              IN /\ hdr' = [hdr EXCEPT ![v] = type_tag(@) + mode]
                 /\ IF v \in BigVals
                    THEN pc' = "panic" /\ UNCHANGED <<meta, scanned_bytes, perm_scanned_bytes>>
                    ELSE /\ pc' = "idle"
                         /\ scanned_bytes' =
                              [scanned_bytes EXCEPT ![t] = IF mode = GC_MARKED THEN @ + sz ELSE @]
                         /\ perm_scanned_bytes' =
                              [perm_scanned_bytes EXCEPT ![t] = IF mode = GC_MARKED THEN @ ELSE @ + sz]
                         /\ meta' = [meta EXCEPT ![PageOf(v)].nold =
                                                   IF mode = GC_MARKED THEN @ ELSE @ + 1]
                 /\ UNCHANGED <<collector, fld, live, roots, fresh, allocmap, current_pg_count, region_pg_count,
                                freelist, bigVars, remVars, cache_remset, cache_nptr,
                                mark_caches, finVars, weak_refs, statVars, opVars>>]_vars

\* C23 witness: the host has marked a young and an old pool object outside a
\* collection: both byte counters of mark caches and nold of a page are set
C23_Witness ==
  /\ pc = "idle"
  /\ \E t \in Threads : scanned_bytes[t] > 0
  /\ \E t \in Threads : perm_scanned_bytes[t] > 0
  /\ \E p \in Pages : allocmap[p] /\ meta[p].nold > 0

\* C24: alloc_page returns the first page of the region whose allocation bit
\* is clear and sets that bit before returning, so a page is never handed out
\* twice without a free in between; and each page is owned by at most one
\* pool-and-thread at any time: the pools whose free lists hold cells of a
\* page, together with the pool the metadata of an allocated page names, are
\* at most one pool of one thread.
C24_PageHandedOutOnceOneOwner ==
  [][/\ \A p \in Pages :
          ~allocmap[p] /\ allocmap'[p] =>
            /\ \A q \in Pages : q < p => allocmap[q]
            /\ \A q \in Pages \ {p} : allocmap'[q] = allocmap[q]
            /\ current_pg_count' = current_pg_count + 1
     /\ \A p \in Pages :
          Cardinality({tk \in Threads \X Pools :
                         \/ \E c \in Range(freelist'[tk[1]][tk[2]]) : PageOf(c) = p
                         \/ /\ allocmap'[p]
                            /\ meta'[p].thread_n = tk[1] /\ meta'[p].pool_n = tk[2]}) <= 1]_vars

\* C25: a newly constructed page manager has current_pg_count = 0 and
\* MIN_REGION_PG_COUNT <= region_pg_count <= DEFAULT_REGION_PG_COUNT, for every
\* value of the process address-space limit used by the start-up halving loop
\* (region_pg_count never changes afterwards).
C25_RegionPgCountInBounds ==
  /\ MIN_REGION_PG_COUNT <= region_pg_count
  /\ region_pg_count <= DEFAULT_REGION_PG_COUNT
  /\ nalloc = 0 /\ ncollect = 0 => current_pg_count = 0

\* C26 as stated: the pool sweep decides each cell of a swept page (an
\* allocated page, on a full sweep or when has_young is set) from its color
\* and age bit: an unmarked cell is pushed on the free list of the page's
\* thread and pool; a marked cell whose age bit is set or whose color is
\* OLD_MARKED becomes OLD on a full sweep and an OLD_MARKED one keeps
\* OLD_MARKED on a quick sweep (entries of the remembered set are then reset
\* to MARKED); any other marked cell becomes CLEAN, gets its age bit set and
\* makes the page has_young.  No marked cell is freed, so a quick sweep frees
\* no object that was OLD_MARKED at mark end.
C26_SweepPerCell ==
  [][CycleEnds =>
       LET quick == prev_sweep_full' = 0
           rotated(c) == quick /\ \E t \in Threads : c \in Range(remset[t])
       IN \A c \in PoolCells :
            LET p == PageOf(c)
                aged == meta[p].ages[IndexOf(c) + 1]
            IN /\ allocmap[p] /\ (~quick \/ meta[p].has_young) =>
                    IF ~marked(hdr[c])
                    THEN c \in Range(freelist'[meta[p].thread_n][meta[p].pool_n])
                    ELSE IF rotated(c) THEN tag(hdr'[c]) = GC_MARKED
                    ELSE IF aged \/ tag(hdr[c]) = GC_OLD_MARKED
                    THEN /\ ~quick => tag(hdr'[c]) = GC_OLD
                         /\ quick /\ tag(hdr[c]) = GC_OLD_MARKED => tag(hdr'[c]) = GC_OLD_MARKED
                    ELSE /\ tag(hdr'[c]) = GC_CLEAN
                         /\ meta'[p].ages[IndexOf(c) + 1]
                         /\ meta'[p].has_young
               /\ marked(hdr[c]) /\ c \in live => c \in live']_vars

\* C26 (amended): a swept page none of whose cells is marked is returned to
\* the page manager and none of its cells is pushed on a free list.  On any
\* other swept page every unmarked cell is pushed once on the free list of
\* the page's thread and pool (the lists of the collecting thread were
\* emptied first); a marked cell whose age bit is set or whose color is
\* OLD_MARKED becomes OLD, except that an OLD_MARKED cell keeps OLD_MARKED on
\* a quick sweep; any other marked cell becomes CLEAN and makes the page
\* has_young; the age bit of every marked cell is set afterwards and the age
\* bit of an unmarked cell is left as it was.  A quick sweep then resets the
\* entries of the remembered set to MARKED.  No marked cell is freed or
\* pushed on a free list.
C26_SweepPerCellOrPage ==
  [][CycleEnds =>
       LET quick == prev_sweep_full' = 0
           rotated(c) == quick /\ \E t \in Threads : c \in Range(remset[t])
           before(t, k, c) == IF t = collector THEN 0 ELSE CountIn(freelist[t][k], c)
       IN \A c \in PoolCells :
            LET p == PageOf(c)
                i == IndexOf(c) + 1
                aged == meta[p].ages[i]
                bits == tag(hdr[c])
                swept == allocmap[p] /\ (~quick \/ meta[p].has_young)
                empty == \A d \in PoolCells : PageOf(d) = p => ~marked(hdr[d])
                pushed(t, k) == swept /\ ~empty /\ ~marked(hdr[c])
                                  /\ t = meta[p].thread_n /\ k = meta[p].pool_n
            IN /\ \A t \in Threads, k \in Pools :
                    CountIn(freelist'[t][k], c) =
                      before(t, k, c) + (IF pushed(t, k) THEN 1 ELSE 0)
               /\ swept /\ empty => ~allocmap'[p] /\ c \notin live'
               /\ swept /\ ~empty =>
                    /\ allocmap'[p]
                    /\ meta'[p].ages[i] = (aged \/ marked(hdr[c]))
                    /\ meta'[p].has_young =
                         \E d \in PoolCells :
                           /\ PageOf(d) = p /\ tag(hdr[d]) = GC_MARKED
                           /\ ~meta[p].ages[IndexOf(d) + 1]
                    /\ ~marked(hdr[c]) => c \notin live' /\ hdr'[c] = hdr[c]
               /\ marked(hdr[c]) =>
                    /\ c \in live <=> c \in live'
                    /\ tag(hdr'[c]) =
                         IF rotated(c) THEN GC_MARKED
                         ELSE IF ~swept THEN bits
                         ELSE IF ~(aged \/ bits = GC_OLD_MARKED) THEN GC_CLEAN
                         ELSE IF quick /\ bits = GC_OLD_MARKED THEN GC_OLD_MARKED
                         ELSE GC_OLD]_vars

\* C26 witness: a sweep is about to walk a page with no marked cell and a
\* page that holds an unmarked cell next to a MARKED cell whose age bit is set
C26_Witness ==
  /\ pc = "synced"
  /\ \E p \in Pages :
       /\ allocmap[p] /\ meta[p].has_young
       /\ \A d \in PoolCells : PageOf(d) = p => ~marked(hdr[d])
  /\ \E c, d \in PoolCells :
       /\ PageOf(c) = PageOf(d) /\ allocmap[PageOf(c)] /\ meta[PageOf(c)].has_young
       /\ tag(hdr[c]) = GC_MARKED /\ meta[PageOf(c)].ages[IndexOf(c) + 1]
       /\ ~marked(hdr[d])

\* C27: premark, for every thread heap: afterwards last_remset holds exactly
\* the entries remset held before, remset is empty, remset_nptr = 0, and every
\* entry of last_remset and of rem_bindings has color OLD_MARKED.  The mark
\* phase that follows leaves these colors and last_remset as premark made
\* them, and only the collecting thread's remset is refilled from the caches.
C27_Premark ==
  [][\A t \in Threads :
       CollectMark(t) /\ pc' = "synced" =>
         /\ \A u \in Threads :
              /\ premark.last_remset[u] = remset[u]
              /\ premark.remset[u] = << >>
              /\ premark.remset_nptr[u] = 0
              /\ \A o \in Range(premark.last_remset[u]) \cup Range(rem_bindings[u]) :
                   tag(premark.hdr[o]) = GC_OLD_MARKED /\ tag(hdr'[o]) = GC_OLD_MARKED
              /\ last_remset'[u] = remset[u]
              /\ u # t => remset'[u] = << >> /\ remset_nptr'[u] = 0
         /\ \A o \in Obj :
              (\A u \in Threads : o \notin Range(remset[u]) \cup Range(rem_bindings[u]))
                => premark.hdr[o] = hdr[o]]_vars

\* C27 witness: a collection has run premark over a remset and a list of
\* bindings that both held entries; a binding that refers to a young value is
\* still in its list
C27_Witness ==
  /\ pc = "synced"
  /\ \E u \in Threads : last_remset[u] # << >>
  /\ \E u \in Threads : \E b \in Range(rem_bindings[u]) :
       tag(hdr[b]) = GC_OLD_MARKED /\ fld[b] # NULL /\ ~old(hdr[fld[b]])

\* C28: draining the overflow stack terminates on every heap and with every
\* interleaving of the workers: a mark phase that has begun reaches the return
\* of visit_mark_stack; the final assert and the pop never fail; at the return
\* the mark stack is empty, no scan task is queued or running; and the
\* coordinator pops only from a non-empty stack.
C28_DrainTerminates ==
  /\ [](/\ vms # "panic"
        /\ vms = "pop" => mark_stack # << >>
        /\ vms \in {"assert", "done"} =>
             /\ mark_stack = << >>
             /\ jobs = << >>
             /\ \A a \in 0 .. NWorkers : agent[a].st = "idle")
  /\ (vms = "roots" ~> vms = "done")

\* the scope ends while objects pushed by its tasks are on the stack: the
\* outer loop has to go round again
C28_Witness ==
  /\ vms = "join" /\ joined
  /\ mark_stack # << >>

\* C29: of the agents that reach the same unmarked object only the one whose
\* header swap finds it unmarked goes on with the object (scan_obj: a frame
\* for it, its push, or the immediate return of a pointerless type); an agent
\* whose swap finds it marked returns without scanning and leaves header and
\* mark stack alone.  A marked header stays as it is until the next mark
\* phase, so an object is claimed at most once; a claim pushes its object at
\* most once (the only other push is the one of a remset entry), and an object
\* is never held twice by the mark stack, the scan tasks and the agents.
C29_OneClaimOnePush ==
  /\ [](\A o \in 1 .. NMark :
          Cardinality({i \in 1 .. Len(mark_stack) : mark_stack[i] = o})
          + Cardinality({i \in 1 .. Len(jobs) : jobs[i].v = o})
          + Cardinality({a \in 0 .. NWorkers :
                          \/ agent[a].st = "push" /\ agent[a].e = o
                          \/ \E i \in 1 .. Len(agent[a].frames) :
                               agent[a].frames[i].v = o}) <= 1)
  /\ [][\A a \in 0 .. NWorkers : agent[a].st = "swap" /\ agent'[a] # agent[a] =>
          LET e == agent[a].e IN
          /\ marked(header'[e])
          /\ ~marked(header[e]) =>
               \/ agent'[a].st = "push" /\ agent'[a].e = e
               \/ agent'[a].st = "scan" /\ Last(agent'[a].frames).v = e
                     /\ Front(agent'[a].frames) = agent[a].frames
               \/ agent'[a].st = "idle" /\ graph[e].npointers = 0
          /\ marked(header[e]) =>
               /\ agent'[a].st = "idle" /\ agent'[a].frames = << >>
               /\ header' = header /\ mark_stack' = mark_stack /\ jobs' = jobs]_vars
  /\ [][vms \notin {"idle", "done"} =>
          \A o \in 1 .. NMark : marked(header[o]) => header'[o] = header[o]]_vars
  /\ [][\A o \in 1 .. NMark : mark_stack' = Append(mark_stack, o) =>
          \/ vms = "roots" /\ agent' = agent /\ todo # << >> /\ Head(todo).remset
               /\ Head(todo).v = o
          \/ \E a \in 0 .. NWorkers :
               /\ agent[a].st = "push" /\ agent[a].e = o
               /\ agent'[a].st = "idle"]_vars
  /\ [][\A a \in 0 .. NWorkers : agent'[a].st = "push" /\ agent[a].st # "push" =>
          /\ agent[a].st = "swap" /\ agent'[a].e = agent[a].e
          /\ ~marked(header[agent[a].e])]_vars

\* two agents reached the same object while it was unmarked: one has won the
\* swap and holds the object, the other has still to swap
C29_Witness ==
  \E a \in 0 .. NWorkers, b \in 0 .. NWorkers :
    /\ a # b
    /\ agent[a].st = "swap" /\ ~marked(agent[a].tag)
    /\ marked(header[agent[a].e])
    /\ \/ agent[b].st = "push" /\ agent[b].e = agent[a].e
       \/ agent[b].frames # << >> /\ Last(agent[b].frames).v = agent[a].e

\* C30 (as stated): the scan never nests to depth MAX_MARK_DEPTH; every object
\* claimed at depth MAX_MARK_DEPTH or more is pushed on the mark stack instead
\* of being scanned; a worker scans a popped object from depth 0; every
\* pointer on the mark stack, or popped from it, has a marked header.
C30_DepthBoundedAllPushed ==
  /\ [](/\ \A a \in 0 .. NWorkers :
             /\ agent[a].frames # << >> =>
                  agent[a].base + Len(agent[a].frames) < MAX_MARK_DEPTH
             /\ a # 0 => agent[a].base = 0
        /\ \A i \in 1 .. Len(mark_stack) : marked(header[mark_stack[i]])
        /\ \A i \in 1 .. Len(jobs) : marked(header[jobs[i].v]))
  /\ [][\A a \in 0 .. NWorkers :
          /\ agent[a].st = "swap" /\ agent'[a] # agent[a] /\ ~marked(header[agent[a].e])
             /\ agent[a].base + Len(agent[a].frames) >= MAX_MARK_DEPTH =>
               /\ marked(header'[agent[a].e])
               /\ agent'[a].st = "push" /\ agent'[a].e = agent[a].e
               /\ agent'[a].frames = agent[a].frames
          /\ agent[a].st = "idle" /\ agent'[a].st # "idle" /\ a # 0 =>
               /\ jobs # << >> /\ jobs' = Tail(jobs)
               /\ agent'[a].frames = <<Head(jobs)>> /\ agent'[a].base = 0]_vars

\* C30 (amended): as above, but scan_obj tests the depth only after it has
\* returned for a pointerless type: an object claimed at depth d with
\* d + 1 >= MAX_MARK_DEPTH is pushed instead of being scanned when its type
\* has pointer fields, and is neither pushed nor scanned when it has none.
C30_DepthBoundedPointersPushed ==
  /\ [](/\ \A a \in 0 .. NWorkers :
             /\ agent[a].frames # << >> =>
                  agent[a].base + Len(agent[a].frames) < MAX_MARK_DEPTH
             /\ a # 0 => agent[a].base = 0
        /\ \A i \in 1 .. Len(mark_stack) : marked(header[mark_stack[i]])
        /\ \A i \in 1 .. Len(jobs) : marked(header[jobs[i].v]))
  /\ [][\A a \in 0 .. NWorkers :
          /\ agent[a].st = "swap" /\ agent'[a] # agent[a] /\ ~marked(header[agent[a].e])
             /\ agent[a].base + Len(agent[a].frames) + 1 >= MAX_MARK_DEPTH =>
               /\ marked(header'[agent[a].e])
               /\ IF graph[agent[a].e].npointers = 0
                  THEN agent'[a].st = "idle" /\ mark_stack' = mark_stack
                  ELSE /\ agent'[a].st = "push" /\ agent'[a].e = agent[a].e
                       /\ agent'[a].frames = agent[a].frames
          /\ agent[a].st = "push" /\ agent'[a] # agent[a] =>
               mark_stack' = Append(mark_stack, agent[a].e)
          /\ agent[a].st = "idle" /\ agent'[a].st # "idle" /\ a # 0 =>
               /\ jobs # << >> /\ jobs' = Tail(jobs)
               /\ agent'[a].frames = <<Head(jobs)>> /\ agent'[a].base = 0]_vars

\* a worker scans an object popped from the mark stack (depth 1) while the
\* recursion of another agent has reached the last depth it scans at and is
\* about to push the child it claimed there
C30_Witness ==
  \E a \in 0 .. NWorkers, w \in 1 .. NWorkers :
    /\ agent[a].st = "push" /\ agent[a].frames # << >>
    /\ agent[a].base + Len(agent[a].frames) + 1 = MAX_MARK_DEPTH
    /\ agent[w].st = "scan" /\ Len(agent[w].frames) = 1

\* C31: every object scanned as OLD_MARKED by a mark phase (an entry of
\* last_remset, or an OLD object the phase marked) whose child is young when
\* the phase ends is an entry of the remset the caches were folded into, the
\* collecting thread's, whose remset_nptr counts the entries; the other
\* threads' remsets are empty after premark; after the synchronization every
\* cache's remset is empty and its counter zero, so that verify_remsets finds
\* them empty whenever a collect starts.
C31_MarkRemsetFolded ==
  /\ [](pc \in {"idle", "synced"} =>
          \A a \in Agents : cache_remset[a] = << >> /\ cache_nptr[a] = 0)
  /\ [][pc = "idle" /\ pc' = "synced" =>
          /\ \A o \in Obj :
               (/\ \/ \E t \in Threads : o \in Range(last_remset'[t])
                   \/ tag(hdr[o]) = GC_OLD /\ tag(hdr'[o]) = GC_OLD_MARKED
                /\ type_tag(hdr[o]) # jl_weakref_type
                /\ fld[o] # NULL /\ ~old(hdr'[fld[o]]))
               => o \in Range(remset'[collector'])
          /\ \A t \in Threads :
               /\ t # collector' => remset'[t] = << >> /\ remset_nptr'[t] = 0
               /\ remset_nptr'[t] = Len(remset'[t])
               /\ \A i \in 1 .. Len(remset'[t]) :
                    /\ tag(hdr'[remset'[t][i]]) = GC_OLD_MARKED
                    /\ ~old(hdr'[fld[remset'[t][i]]])]_vars

\* the mark phase has ended and the collecting thread's remset holds an old
\* object that was not remembered before: the phase reached it from a root,
\* marked it and found its child young
C31_Witness ==
  /\ pc = "synced"
  /\ \E o \in Range(remset[collector]) :
       /\ \A t \in Threads : o \notin Range(last_remset[t])
       /\ tag(hdr[o]) = GC_OLD_MARKED
       /\ fld[o] # NULL /\ tag(hdr[fld[o]]) = GC_MARKED

\* C32: the sweep of a cycle rotates the remembered sets of every thread: a
\* quick sweep keeps remset and rem_bindings as they are and leaves every
\* entry of either with colour MARKED; a full sweep leaves both lists of every
\* thread empty.
C32_RemsetRotation ==
  [][pc = "synced" /\ pc' = "idle" =>
       \A t \in Threads :
         IF prev_sweep_full' = 0
         THEN /\ remset'[t] = remset[t] /\ rem_bindings'[t] = rem_bindings[t]
              /\ \A o \in Range(remset'[t]) \cup Range(rem_bindings'[t]) :
                   tag(hdr'[o]) = GC_MARKED
         ELSE remset'[t] = << >> /\ rem_bindings'[t] = << >>]_vars

\* a quick sweep has just ended and left a remembered parent and a remembered
\* binding, both rescanned by the mark phase of the cycle, with colour MARKED
\* in the lists
C32_Witness ==
  /\ pc = "idle" /\ prev_sweep_full = 0 /\ pause > 0
  /\ \E t \in Threads, u \in Threads :
       /\ remset[t] # << >> /\ rem_bindings[u] # << >>
       /\ Range(remset[t]) \subseteq UNION {Range(last_remset[v]) : v \in Threads}
       /\ \A o \in Range(remset[t]) \cup Range(rem_bindings[u]) :
            tag(hdr[o]) = GC_MARKED /\ fld[o] # NULL /\ tag(hdr[fld[o]]) = GC_CLEAN

\* C33: a quick sweep leaves every allocated page whose has_young flag is
\* false as it is: the page stays allocated, none of its cells is freed or
\* pushed on a free list, its metadata (nfree, nold, has_marked, has_young and
\* the age bits) does not change, and the header of a cell changes only when
\* the cell is an entry of a remset or of rem_bindings, which the rotation
\* recolours MARKED.
C33_QuickSweepSkipsOldPages ==
  [][pc = "synced" /\ pc' = "idle" /\ prev_sweep_full' = 0 =>
       \A p \in Pages : allocmap[p] /\ ~meta[p].has_young =>
         /\ allocmap'[p] /\ meta'[p] = meta[p]
         /\ \A i \in 0 .. (CellsPerPage - 1) :
              LET c == CellAt(p, i) IN
              /\ c \in live <=> c \in live'
              /\ \A t \in Threads, k \in Pools :
                   c \in Range(freelist'[t][k]) => c \in Range(freelist[t][k])
              /\ \/ hdr'[c] = hdr[c]
                 \/ /\ \E t \in Threads : c \in Range(remset[t]) \cup Range(rem_bindings[t])
                    /\ hdr'[c] = set_tag(hdr[c], GC_MARKED)]_vars

\* a quick sweep has ended and a page without young cells still holds an old
\* object that nothing reaches and that the mark phase left unmarked: a sweep
\* of the page would have freed it
C33_Witness ==
  /\ pc = "idle" /\ prev_sweep_full = 0 /\ pause > 0
  /\ \E c \in live \cap PoolCells :
       /\ allocmap[PageOf(c)] /\ ~meta[PageOf(c)].has_young
       /\ tag(hdr[c]) = GC_OLD /\ c \notin ReachFrom(roots \cup fresh)

\* C34: collect goes through its phases in the order premark, mark (walk_roots),
\* finalize (mark_finalizers), synchronization, sweep.  While collect is not
\* marking, no scan task is queued or running and the mark stack is empty;
\* sync_caches runs when mark_finalizers has returned and every task has
\* joined, and it moves every entry of every agent's cache to the collecting
\* thread's remset; the sweep starts with the caches empty.
C34_PhaseOrder ==
  /\ [][pc' # pc =>
          <<pc, pc'>> \in {<<"idle", "premark">>, <<"premark", "mark">>,
                           <<"mark", "finalize">>, <<"finalize", "synced">>,
                           <<"synced", "idle">>}]_vars
  /\ [](pc \in {"idle", "premark", "synced"} =>
          /\ mark_stack = << >> /\ jobs = << >>
          /\ pc # "premark" => todo = << >>
          /\ \A a \in 0 .. NWorkers : agent[a].st = "idle" /\ agent[a].frames = << >>)
  /\ [](pc = "synced" => \A a \in 0 .. NWorkers : agent[a].remset = << >>)
  /\ [][pc = "finalize" /\ pc' = "synced" =>
          /\ vms = "done" /\ todo = << >>
          /\ \A a \in 0 .. NWorkers :
               /\ agent[a].st = "idle"
               /\ \A i \in 1 .. Len(agent[a].remset) :
                    agent[a].remset[i] \in Range(remset'[collector])]_vars
  /\ [][pc = "mark" /\ pc' = "finalize" =>
          vms = "done" /\ \A a \in 0 .. NWorkers : agent[a].st = "idle"]_vars
  /\ [][header' # header /\ pc = "synced" => pc' = "idle"]_vars

\* the synchronization has folded a remset entry that a worker recorded: the
\* sweep is about to start
C34_Witness ==
  /\ pc = "synced"
  /\ remset[collector] # << >>
  /\ \E o \in 1 .. NMark : header[o] = GC_MARKED

\* C35: whenever a big object is freed, the byte size handed to the
\* deallocator and added to gc_num.freed (BigVal::allocd_size of the record)
\* equals the byte size big_alloc asked of the allocator and added to
\* gc_num.allocd when the object was allocated.
C35_BigFreeSizeIsAllocSize ==
  [][\A b \in (live \ live') \cap BigVals :
       allocd_size(bigrec[b].sz) = bigrec[b].allocsz]_vars

\* C36: between two premarks no object appears more than once across the
\* threads' remsets.
C36_NoDuplicateInRemsets ==
  pc = "idle" =>
    \A t \in Threads, u \in Threads :
      \A i \in 1 .. Len(remset[t]), j \in 1 .. Len(remset[u]) :
        remset[t][i] = remset[u][j] => t = u /\ i = j

\* C37: both assertions of collect on the mark-cache table hold in every
\* cycle: at entry at most thread_count mark caches exist, and after the
\* caches are synchronized exactly thread_count exist (every worker of the
\* pool owns one, the coordinating thread owns none).
C37_MarkCacheAssertionsHold ==
  [][\A t \in Threads :
       CollectMark(t) =>
         LET m0 == walk_roots(MarkState(premark.hdr, t), premark.last_remset)
             g == sweep_finalizers(m0.hdr)
             m == mark_finalizers(m0, g, IF prev_sweep_full # 0 THEN 0
                                         ELSE Len(finalizer_list_marked))
         IN /\ Cardinality(mark_caches) <= ThreadCount
            /\ Cardinality(m.caches \cup {Worker}) = ThreadCount]_vars

\* C38: after every sweep, quick or full, for every allocated pool page the
\* number of entries of its owning pool's free list that are cells of the
\* page equals the page's nfree counter.
C38_FreeListMatchesNfree ==
  [][CycleEnds =>
       \A p \in Pages :
         allocmap'[p] =>
           LET fl == freelist'[meta'[p].thread_n][meta'[p].pool_n]
           IN Cardinality({i \in 1 .. Len(fl) : PageOf(fl[i]) = p}) = meta'[p].nfree]_vars

\* C39: every pool cell pool_alloc hands out has its age bit clear, a cell
\* freed by an earlier sweep and reused included; so a pool object enters the
\* first cycle after its allocation young and that cycle's sweep does not
\* promote it to OLD.
C39_AllocatedCellIsYoung ==
  [][/\ \A c \in (live' \ live) \cap PoolCells :
          ~(meta'[PageOf(c)].ages # << >> /\ AgeBit(c)')
     /\ (pc = "idle" /\ pc' = "synced") =>
          \A c \in fresh \cap PoolCells : ~(meta[PageOf(c)].ages # << >> /\ AgeBit(c))]_vars

\* C40: after any sequence of alloc_page, free_page and sweeps
\* current_pg_count is the number of set bits of the allocation bitmap, so
\* the countdown of the pool sweep ends when the last allocated page has been
\* visited; free_page on a page whose bit is clear trips the assertion and
\* changes nothing.
C40_PageCountIsBitCount ==
  /\ [](current_pg_count = Cardinality({p \in Pages : allocmap[p]}))
  /\ [][CycleEnds => PoolSwept(prev_sweep_full' = 1).remaining = 0]_vars
  /\ [][\A p \in Pages :
          (~allocmap[p] /\ FreePage(p)) =>
            pc' = "panic" /\ UNCHANGED <<heapVars, pageVars, bigVars, remVars>>]_vars

\* after a collection, a page the host took is allocated next to a page
\* that a pool used and that has been freed
C40_Witness ==
  /\ pc = "idle" /\ ncollect >= 1
  /\ \E p \in Pages : allocmap[p] /\ meta[p].ages = << >>
  /\ \E q \in Pages : ~allocmap[q] /\ meta[q].osize # 0
====
